---- MODULE Spec2Model ----
(***************************************************************************)
(* The request queue of apify-storage-local: one queue directory holds one *)
(* SQLite file with a queue table (one row, id 1) and a requests table.    *)
(* RequestQueueClient validates a request, builds its RequestModel and     *)
(* hands it to a transaction of RequestQueueEmulator.  Every transaction   *)
(* is synchronous (better-sqlite3), so one operation is one atomic step.   *)
(***************************************************************************)
EXTENDS Integers, Sequences, FiniteSets, TLC

(***************************************************************************)
(* JavaScript / SQL scalar values.  undefined, null, numbers and strings   *)
(* are kept apart because the code tells them apart (=== null,             *)
(* === undefined, == null, typeof).                                        *)
(***************************************************************************)
UNDEFINED == [t |-> "undefined"]

NULL == [t |-> "null"]

Num(n) == [t |-> "number", v |-> n]

\* a Date, kept as the ISO string toISOString() gives for it
Date(iso) == [t |-> "date", v |-> iso]

\* an object literal, kept as the record of its properties
Obj(properties) == [t |-> "object", v |-> properties]

Str(s) == [t |-> "string", v |-> s]

\* typeof x
TypeOf(x) ==
    IF x.t = "null" THEN "object" ELSE x.t

\* ToBoolean(x) for the scalars above
Truthy(x) ==
    CASE x.t = "undefined" -> FALSE
      [] x.t = "null"      -> FALSE
      [] x.t = "number"    -> x.v # 0
      [] x.t = "string"    -> x.v # ""
      [] x.t = "date"      -> TRUE
      [] x.t = "object"    -> TRUE

\* better-sqlite3 binds undefined and null as SQL NULL
ToSql(x) ==
    IF x.t = "undefined" THEN NULL ELSE x

Abs(n) ==
    IF n < 0 THEN -n ELSE n

(***************************************************************************)
(* Bounds of the model.                                                    *)
(***************************************************************************)
\* lockSecs * 1000
MsPerSec == 1000

\* how many times the clock advances; it advances by one second at a time,
\* and any number of operations happen within one millisecond
MaxTicks == 1

\* Date.now() of the first operation, in milliseconds
StartTime == MsPerSec

MaxTime == StartTime + MaxTicks * MsPerSec

UniqueKeys == {"key1", "key2"}

LockSecsValues == {1}

Limits == {0, 1, 2}

\* prolongRequestLock is not called once the unlock time would pass this one
MaxOrderNo == MaxTime + MsPerSec

(***************************************************************************)
(* utils: uniqueKeyToRequestId.  sha256 -> base64 -> strip -> 15 chars; on *)
(* the keys of the model it is the table below (no two of them collide).   *)
(***************************************************************************)
uniqueKeyToRequestId(uniqueKey) ==
    CASE uniqueKey = "key1" -> "Xo8mTzP1aQwertY"
      [] uniqueKey = "key2" -> "b7LkQ2VnC0dfGhJ"
      [] uniqueKey = "key3" -> "Zz19aKpLmN3sTuV"
      [] OTHER              -> "h" \o uniqueKey

RequestIds == {uniqueKeyToRequestId(k) : k \in UniqueKeys}

(***************************************************************************)
(* Requests the callers pass.  A request is an object with the fields id,  *)
(* url, uniqueKey, method, retryCount, handledAt and userData (undefined    *)
(* when absent).                                                           *)
(***************************************************************************)
Variants ==
    { [url |-> Str("http://example.com/a"), method |-> Str("GET"), retryCount |-> Num(0)],
      [url |-> Str("http://example.com/b"), method |-> Str("POST"), retryCount |-> Num(1)] }

HandledAtValues == {UNDEFINED, Str("2020-01-01T00:00:00.000Z")}

MkRequest(id, uniqueKey, variant, handledAt) ==
    [id |-> id, url |-> variant.url, uniqueKey |-> uniqueKey, method |-> variant.method,
     retryCount |-> variant.retryCount, handledAt |-> handledAt, userData |-> UNDEFINED]

\* requests without id: what addRequest and batchAddRequests accept
NewRequests ==
    { MkRequest(UNDEFINED, Str(k), v, h) : k \in UniqueKeys, v \in Variants, h \in HandledAtValues }

\* requests carrying the id derived from their uniqueKey: what updateRequest accepts
IdRequests ==
    { [r EXCEPT !.id = Str(uniqueKeyToRequestId(r.uniqueKey.v))] : r \in NewRequests }

PlainRequest ==
    MkRequest(UNDEFINED, Str("key1"), CHOOSE v \in Variants : v.method = Str("GET"), UNDEFINED)

\* requests the validation or _createRequestModel rejects
BadRequests ==
    { [PlainRequest EXCEPT !.url = UNDEFINED],
      [PlainRequest EXCEPT !.uniqueKey = UNDEFINED],
      [PlainRequest EXCEPT !.id = Str(uniqueKeyToRequestId("key2"))] }

\* what the callers of addRequest pass
AddInputs ==
    NewRequests \cup BadRequests \cup {CHOOSE r \in IdRequests : r.uniqueKey = Str("key1")}

\* what the callers of updateRequest pass
UpdateInputs ==
    IdRequests \cup BadRequests \cup {PlainRequest}

(***************************************************************************)
(* State.                                                                  *)
(***************************************************************************)
VARIABLES
    now,        \* Date.now() and SQLite's 'NOW', in milliseconds
    queues,     \* rows of the queue table
    requests,   \* rows of the requests table
    storage,    \* the queue's directory and the cached connection to its database:
                \* "none" (no directory, never opened), "dir" (the directory exists),
                \* "moved" (update({name}) closed the connection and moved the directory,
                \* database and all, to the new name), "closed" (the cached connection of
                \* the path where the queue is, or was before delete(), is closed)
    connections, \* DatabaseConnectionCache.connections: for the database of each queue
                \* directory, the connection the cache holds, if any
    taken,      \* the name update({name}) would give the queue has a directory of its own
    storageDir, \* ApifyStorageLocal.storageDir, resolved
    files,      \* the paths there are under storageDir: the directories of the containers
                \* and the entries in them
    lastOp,     \* history: the last call of a watched operation, what it was given (of
                \* addRequest, updateRequest and batchAddRequests: the requests) and
                \* its outcome
    prevOp,     \* history: the watched call made just before lastOp, when calls are paired
    worker,     \* the crawl loop of a caller: where it is ("off", "list": about to call
                \* listAndLockHead, "mark": marking what it was given) and the requests
                \* it was given and has not marked handled yet
    grant       \* history: the last lock listAndLockHead gave for the request WatchedId
                \* and what was done to that request since

vars == <<now, queues, requests, storage, connections, taken, storageDir, files,
          lastOp, prevOp, worker, grant>>

\* RequestQueueClient.id: each database holds one queue, with id 1
QueueId == 1

QueueName == "first"

\* the name update({name}) gives the queue
NewName == "second"

NoError == ""

DB == [queues |-> queues, requests |-> requests]

(***************************************************************************)
(* RequestQueueEmulator: triggers and prepared statements.  A statement    *)
(* takes the database (db.queues, db.requests) and the clock t and gives   *)
(* the database after it, or the rows it selects.                          *)
(***************************************************************************)
ERROR_REQUEST_NOT_UNIQUE == "SQLITE_CONSTRAINT_PRIMARYKEY"

ERROR_QUEUE_DOES_NOT_EXIST == "SQLITE_CONSTRAINT_FOREIGNKEY"

\* a faulty variant: the triggers leave accessedAt alone
BumpTriggerModifiedOnly(qs, queueId, t) ==
    { IF q.id = queueId THEN [q EXCEPT !.modifiedAt = t] ELSE q : q \in qs }

\* T_bump_modifiedAt_accessedAt_on_insert / update / delete
BumpTrigger(qs, queueId, t) ==
    { IF q.id = queueId THEN [q EXCEPT !.modifiedAt = t, !.accessedAt = t] ELSE q : q \in qs }

\* pendingRequestCount INTEGER GENERATED ALWAYS AS (totalRequestCount - handledRequestCount)
pendingRequestCount(q) ==
    q.totalRequestCount - q.handledRequestCount

selectById(db, id) ==
    IF \E q \in db.queues : q.id = id
    THEN {CHOOSE q \in db.queues : q.id = id}
    ELSE {}

\* a faulty variant: a read counts as a modification
updateAccessedAndModifiedAtById(db, id, t) ==
    [db EXCEPT !.queues = { IF q.id = id THEN [q EXCEPT !.accessedAt = t, !.modifiedAt = t]
                            ELSE q : q \in @ }]

updateAccessedAtById(db, id, t) ==
    [db EXCEPT !.queues = { IF q.id = id THEN [q EXCEPT !.accessedAt = t] ELSE q : q \in @ }]

\* UPDATE queues SET name = ? WHERE id = ?
updateNameById(db, id, name) ==
    [db EXCEPT !.queues = { IF q.id = id THEN [q EXCEPT !.name = name] ELSE q : q \in @ }]

updateModifiedAtById(db, id, t) ==
    [db EXCEPT !.queues = { IF q.id = id THEN [q EXCEPT !.modifiedAt = t] ELSE q : q \in @ }]

\* SELECT * FROM queues WHERE name = ?
selectByName(db, name) ==
    { q \in db.queues : q.name = name }

\* INSERT INTO queues(name) VALUES(?): id INTEGER PRIMARY KEY takes the next rowid, the
\* three timestamps and the two counters take their defaults
insertByName(db, name, t) ==
    LET ids == { q.id : q \in db.queues }
        id == IF ids = {} THEN 1 ELSE 1 + (CHOOSE n \in ids : \A o \in ids : o <= n)
    IN  [db EXCEPT !.queues = @ \cup { [id |-> id, name |-> name, createdAt |-> t,
                                        modifiedAt |-> t, accessedAt |-> t,
                                        totalRequestCount |-> 0, handledRequestCount |-> 0] }]

selectModifiedAtById(db, id) ==
    { q.modifiedAt : q \in selectById(db, id) }

\* a faulty variant: the handled adjustment is dropped
adjustTotalRequestCountOnly(db, id, totalAdjustment, handledAdjustment) ==
    [db EXCEPT !.queues =
        { IF q.id = id THEN [q EXCEPT !.totalRequestCount = @ + totalAdjustment] ELSE q
          : q \in @ }]

adjustTotalAndHandledRequestCounts(db, id, totalAdjustment, handledAdjustment) ==
    [db EXCEPT !.queues =
        { IF q.id = id
          THEN [q EXCEPT !.totalRequestCount = @ + totalAdjustment,
                         !.handledRequestCount = @ + handledAdjustment]
          ELSE q : q \in @ }]

\* the rows WHERE queueId = :queueId AND id = :id
RowsById(db, queueId, id) ==
    { r \in db.requests : r.queueId = queueId /\ r.id = id }

\* the first row of a result set: the one of least rowid
FirstRow(rows) ==
    CHOOSE r \in rows : \A o \in rows : r.rowid <= o.rowid

\* SELECT orderNo ... .pluck().get(): undefined when no row matches
selectRequestOrderNoByModel(db, model) ==
    LET rows == RowsById(db, model.queueId, model.id)
    IN  IF rows = {} THEN UNDEFINED ELSE FirstRow(rows).orderNo

\* SELECT "json" ... .pluck().get()
selectRequestJsonByModel(db, queueId, requestId) ==
    LET rows == RowsById(db, queueId, requestId)
    IN  IF rows = {} THEN UNDEFINED ELSE FirstRow(rows).json

NextRowid(rows) ==
    IF rows = {} THEN 1
    ELSE 1 + (CHOOSE n \in {r.rowid : r \in rows} : \A r \in rows : r.rowid <= n)

\* a faulty variant: the table has no primary key, every insert adds a row
insertRequestWithoutPrimaryKey(db, model, t) ==
    [code |-> "OK",
     db |-> [queues |-> BumpTrigger(db.queues, model.queueId, t),
             requests |-> db.requests \cup
                 { [rowid |-> NextRowid(db.requests), queueId |-> model.queueId,
                    id |-> model.id, orderNo |-> ToSql(model.orderNo),
                    url |-> model.url, uniqueKey |-> model.uniqueKey,
                    method |-> ToSql(model.method),
                    retryCount |-> ToSql(model.retryCount), json |-> model.json] }]]

\* a faulty variant: the primary key is (queueId, id, url)
insertRequestKeyedByUrl(db, model, t) ==
    IF \E r \in db.requests : /\ r.queueId = model.queueId
                              /\ r.id = model.id
                              /\ r.url = model.url
    THEN [code |-> ERROR_REQUEST_NOT_UNIQUE, db |-> db]
    ELSE insertRequestWithoutPrimaryKey(db, model, t)

\* INSERT INTO requests ...: PRIMARY KEY (queueId, id, uniqueKey),
\* queueId REFERENCES queues(id); AFTER INSERT trigger
insertRequestByModel(db, model, t) ==
    IF \E r \in db.requests : /\ r.queueId = model.queueId
                              /\ r.id = model.id
                              /\ r.uniqueKey = model.uniqueKey
    THEN [code |-> ERROR_REQUEST_NOT_UNIQUE, db |-> db]
    ELSE IF ~ \E q \in db.queues : q.id = model.queueId
    THEN [code |-> ERROR_QUEUE_DOES_NOT_EXIST, db |-> db]
    ELSE [code |-> "OK",
          db |-> [queues |-> BumpTrigger(db.queues, model.queueId, t),
                  requests |-> db.requests \cup
                      { [rowid |-> NextRowid(db.requests), queueId |-> model.queueId,
                         id |-> model.id, orderNo |-> ToSql(model.orderNo),
                         url |-> model.url, uniqueKey |-> model.uniqueKey,
                         method |-> ToSql(model.method),
                         retryCount |-> ToSql(model.retryCount), json |-> model.json] }]]

\* a faulty variant: the json column is left as it was
updateRequestByModelKeepingJson(db, model, t) ==
    LET hit == RowsById(db, model.queueId, model.id)
    IN  [queues |-> IF hit = {} THEN db.queues ELSE BumpTrigger(db.queues, model.queueId, t),
         requests |-> { IF r \in hit
                        THEN [r EXCEPT !.orderNo = ToSql(model.orderNo), !.url = model.url,
                                       !.uniqueKey = model.uniqueKey,
                                       !.method = ToSql(model.method),
                                       !.retryCount = ToSql(model.retryCount)]
                        ELSE r : r \in db.requests }]

\* UPDATE requests SET orderNo, url, uniqueKey, method, retryCount, json
\* WHERE queueId = :queueId AND id = :id; AFTER UPDATE trigger
updateRequestByModel(db, model, t) ==
    LET hit == RowsById(db, model.queueId, model.id)
    IN  [queues |-> IF hit = {} THEN db.queues ELSE BumpTrigger(db.queues, model.queueId, t),
         requests |-> { IF r \in hit
                        THEN [r EXCEPT !.orderNo = ToSql(model.orderNo), !.url = model.url,
                                       !.uniqueKey = model.uniqueKey,
                                       !.method = ToSql(model.method),
                                       !.retryCount = ToSql(model.retryCount),
                                       !.json = model.json]
                        ELSE r : r \in db.requests }]

\* CAST(text AS INTEGER): the number written by the leading digits of the text, 0 when
\* it starts with none
DigitOf(c) ==
    CASE c = "0" -> 0 [] c = "1" -> 1 [] c = "2" -> 2 [] c = "3" -> 3 [] c = "4" -> 4
      [] c = "5" -> 5 [] c = "6" -> 6 [] c = "7" -> 7 [] c = "8" -> 8 [] c = "9" -> 9
      [] OTHER -> -1

RECURSIVE CastFrom(_, _, _)
CastFrom(text, i, acc) ==
    IF i > Len(text) \/ DigitOf(SubSeq(text, i, i)) < 0 THEN acc
    ELSE CastFrom(text, i + 1, acc * 10 + DigitOf(SubSeq(text, i, i)))

CastAsInteger(text) ==
    CastFrom(text, 1, 0)

\* statements.deleteById: DELETE FROM queues WHERE id = CAST(? as INTEGER); the request
\* rows of the queue go with it (queueId REFERENCES queues(id) ON DELETE CASCADE)
deleteById(db, id) ==
    [queues |-> { q \in db.queues : q.id # CastAsInteger(id) },
     requests |-> { r \in db.requests : r.queueId # CastAsInteger(id) }]

\* statements.deleteRequestById: DELETE FROM requests WHERE id = ?; AFTER DELETE trigger
\* on OLD.queueId.  The statement is prepared, no method of the emulator runs it
deleteRequestByIdStatement(db, id, t) ==
    LET hit == { r \in db.requests : r.id = id }
        qids == { r.queueId : r \in hit }
    IN  [queues |-> { IF q.id \in qids THEN [q EXCEPT !.modifiedAt = t, !.accessedAt = t]
                      ELSE q : q \in db.queues },
         requests |-> db.requests \ hit]

\* a faulty variant: the trigger does not fire when only orderNo is written
updateOrderNoWithoutTrigger(db, id, orderNo, t) ==
    [queues |-> db.queues,
     requests |-> { IF r.id = id THEN [r EXCEPT !.orderNo = Num(orderNo)] ELSE r
                    : r \in db.requests }]

\* a faulty variant: the statement has no WHERE clause
updateOrderNoOfEveryRow(db, id, orderNo, t) ==
    [queues |-> { [q EXCEPT !.modifiedAt = t, !.accessedAt = t] : q \in db.queues },
     requests |-> { [r EXCEPT !.orderNo = Num(orderNo)] : r \in db.requests }]

\* UPDATE requests SET orderNo = :orderNo WHERE id = :id; AFTER UPDATE trigger
updateOrderNo(db, id, orderNo, t) ==
    LET hit == { r \in db.requests : r.id = id }
        qids == { r.queueId : r \in hit }
    IN  [queues |-> { IF q.id \in qids THEN [q EXCEPT !.modifiedAt = t, !.accessedAt = t]
                      ELSE q : q \in db.queues },
         requests |-> { IF r \in hit THEN [r EXCEPT !.orderNo = Num(orderNo)] ELSE r
                        : r \in db.requests }]

\* a faulty variant: the handled rows are found too, as if their orderNo were 0
fetchRequestHandledToo(db, id) ==
    { [r EXCEPT !.orderNo = IF @ = NULL THEN Num(0) ELSE @] : r \in { x \in db.requests : x.id = id } }

\* SELECT id, orderNo ... WHERE id = ? AND orderNo IS NOT NULL
fetchRequestNotExpired(db, id) ==
    { r \in db.requests : r.id = id /\ r.orderNo # NULL }

\* a faulty variant: the clock is not looked at, any pending row is found
fetchRequestNotExpiredWhateverTime(db, id, currentTime) ==
    { r \in db.requests : r.id = id /\ r.orderNo # NULL }

\* ... AND orderNo IS NOT NULL AND (orderNo > :currentTime OR orderNo < -(:currentTime))
fetchRequestNotExpiredAndLocked(db, id, currentTime) ==
    { r \in db.requests : /\ r.id = id
                          /\ r.orderNo # NULL
                          /\ (r.orderNo.v > currentTime \/ r.orderNo.v < -currentTime) }

\* a result set in ascending (orderNo, rowid) order, as the index I_queueId_orderNo gives it
RECURSIVE OrderByOrderNo(_)
OrderByOrderNo(rows) ==
    IF rows = {} THEN << >>
    ELSE LET first == CHOOSE r \in rows : \A o \in rows :
                          \/ r.orderNo.v < o.orderNo.v
                          \/ (r.orderNo.v = o.orderNo.v /\ r.rowid <= o.rowid)
         IN  <<first>> \o OrderByOrderNo(rows \ {first})

\* LIMIT :limit
Limit(seq, limit) ==
    IF limit < 0 \/ limit >= Len(seq) THEN seq ELSE SubSeq(seq, 1, limit)

\* a faulty variant: the head is taken without looking at the clock
fetchRequestHeadIgnoringLocks(db, queueId, limit, currentTime) ==
    Limit(OrderByOrderNo({ r \in db.requests : r.queueId = queueId /\ r.orderNo # NULL }), limit)

\* a faulty variant: the rows at the forefront are left out
fetchRequestHeadThatWillBeLockedAtTail(db, queueId, limit, currentTime) ==
    Limit(OrderByOrderNo({ r \in db.requests : /\ r.queueId = queueId
                                               /\ r.orderNo # NULL
                                               /\ r.orderNo.v <= currentTime
                                               /\ r.orderNo.v > 0 }), limit)

\* WHERE queueId = :queueId AND orderNo IS NOT NULL AND orderNo <= :currentTime
\* AND orderNo >= -(:currentTime) ORDER BY orderNo ASC LIMIT :limit
fetchRequestHeadThatWillBeLocked(db, queueId, limit, currentTime) ==
    Limit(OrderByOrderNo({ r \in db.requests : /\ r.queueId = queueId
                                               /\ r.orderNo # NULL
                                               /\ r.orderNo.v <= currentTime
                                               /\ r.orderNo.v >= -currentTime }), limit)

\* a faulty variant: the handled rows are listed too, as if their orderNo were 0
selectRequestJsonsIncludingHandled(db, queueId, limit) ==
    LET rows == { [r EXCEPT !.orderNo = IF @ = NULL THEN Num(0) ELSE @]
                  : r \in { x \in db.requests : x.queueId = queueId } }
        head == Limit(OrderByOrderNo(rows), limit)
    IN  [i \in 1..Len(head) |-> head[i].json]

\* a faulty variant: the rows come in the order of the table (by rowid), not of the index
selectRequestJsonsInTableOrder(db, queueId, limit) ==
    LET rows == { [r EXCEPT !.orderNo = Num(r.rowid)]
                  : r \in { x \in db.requests : x.queueId = queueId /\ x.orderNo # NULL } }
        head == Limit(OrderByOrderNo(rows), limit)
    IN  [i \in 1..Len(head) |-> head[i].json]

\* WHERE queueId = :queueId AND orderNo IS NOT NULL LIMIT :limit
selectRequestJsonsByQueueIdWithLimit(db, queueId, limit) ==
    LET head == Limit(OrderByOrderNo({ r \in db.requests : r.queueId = queueId /\ r.orderNo # NULL }),
                      limit)
    IN  [i \in 1..Len(head) |-> head[i].json]

(***************************************************************************)
(* Results.                                                                *)
(***************************************************************************)
\* a faulty variant: requestOrderNo == null in place of === null
QueueOperationInfoLooselyHandled(requestId, requestOrderNo) ==
    [requestId |-> requestId,
     wasAlreadyPresent |-> requestOrderNo # UNDEFINED,
     wasAlreadyHandled |-> requestOrderNo \in {NULL, UNDEFINED}]

\* class QueueOperationInfo: constructor(requestId, requestOrderNo)
QueueOperationInfo(requestId, requestOrderNo) ==
    [requestId |-> requestId,
     wasAlreadyPresent |-> requestOrderNo # UNDEFINED,
     wasAlreadyHandled |-> requestOrderNo = NULL]

\* class ProcessedRequest: constructor(requestId, uniqueKey, requestOrderNo)
ProcessedRequest(requestId, uniqueKey, requestOrderNo) ==
    [uniqueKey |-> uniqueKey,
     requestId |-> requestId,
     wasAlreadyPresent |-> requestOrderNo # UNDEFINED,
     wasAlreadyHandled |-> requestOrderNo = NULL]

\* what a transaction gives: the database it commits, its return value, its error
Commit(db, ret) ==
    [db |-> db, ret |-> ret, err |-> NoError]

\* a throw inside db.transaction(...) rolls back to the database it started from
Rollback(db, err) ==
    [db |-> db, ret |-> UNDEFINED, err |-> err]

QueueDoesNotExist(queueId) ==
    "Request queue with id: " \o ToString(queueId) \o " does not exist."

\* dbConnections.openConnection fails: the directory of the database does not exist
QueueDirDoesNotExist(name) ==
    "Request queue with id: " \o name \o " does not exist."

\* a statement is prepared on a connection that disconnect() has closed
ConnectionNotOpen == "The database connection is not open"

\* the database files there may be: one in the directory of each queue name
Paths == {QueueName, NewName}

\* the cache holds no connection for a path
NoConnection == [no |-> 0, open |-> FALSE]

\* DatabaseConnectionCache._createConnection(path): a new connection, not one of those
\* the cache holds, or the error of a database whose directory does not exist
_createConnection(cache, path, dirExists) ==
    IF ~ dirExists THEN [ret |-> NoConnection, err |-> "ENOENT"]
    ELSE [ret |-> [no |-> 1 + Cardinality({ p \in Paths : cache[p] # NoConnection }),
                   open |-> TRUE],
          err |-> NoError]

\* DatabaseConnectionCache.openConnection(path): the connection the cache has for the
\* path, whatever its state, else a new one, which is put in the cache
openConnection(cache, path, dirExists) ==
    IF cache[path] # NoConnection
    THEN [cache |-> cache, ret |-> cache[path], err |-> NoError]
    ELSE LET newConnection == _createConnection(cache, path, dirExists)
         IN  IF newConnection.err # NoError
             THEN [cache |-> cache, ret |-> NoConnection, err |-> newConnection.err]
             ELSE [cache |-> [cache EXCEPT ![path] = newConnection.ret],
                   ret |-> newConnection.ret, err |-> NoError]

\* a variant that takes the closed connection out of the cache
closeConnectionRemoving(cache, path) ==
    [cache EXCEPT ![path] = NoConnection]

\* DatabaseConnectionCache.closeConnection(path): the connection of the path, if the
\* cache has one, is closed; the cache keeps it
closeConnection(cache, path) ==
    IF cache[path] # NoConnection THEN [cache EXCEPT ![path].open = FALSE] ELSE cache

\* a faulty variant: a missing directory is not noticed
RequestQueueEmulatorAnywhere(st, name) ==
    IF st = "closed" THEN ConnectionNotOpen ELSE NoError

\* new RequestQueueEmulator({queueDir, dbConnections}): the error it throws, if any.  The
\* connection cache gives the connection it has, open or closed, and else opens the
\* database file, which needs the directory; then the tables are created if missing
RequestQueueEmulator(st, name) ==
    IF st = "none" THEN QueueDirDoesNotExist(name)
    ELSE IF st = "closed" \/ (st = "moved" /\ name # NewName) THEN ConnectionNotOpen
    ELSE NoError

(***************************************************************************)
(* RequestQueueEmulator: transactions.                                     *)
(***************************************************************************)
\* a faulty variant: the row is inserted without looking for the name first
selectOrInsertByNameTxAlwaysInserting(db, name, t) ==
    LET db1 == insertByName([db EXCEPT !.queues = { q \in @ : q.name # name }], name, t)
    IN  Commit([db1 EXCEPT !.queues = @ \cup db.queues],
               CHOOSE q \in selectByName(db1, name) : TRUE)

\* transactions.selectOrInsertByName(name), for a non-empty name
selectOrInsertByNameTx(db, name, t) ==
    IF selectByName(db, name) # {}
    THEN Commit(db, CHOOSE q \in selectByName(db, name) : TRUE)
    ELSE LET db1 == insertByName(db, name, t)
         IN  Commit(db1, CHOOSE q \in selectByName(db1, name) : TRUE)

\* a faulty variant: a request already present is overwritten
addRequestTxOverwriting(db, model, t) ==
    LET ins == insertRequestByModel(db, model, t)
        handledCountAdjustment == IF model.orderNo = NULL THEN 1 ELSE 0
    IN  CASE ins.code = "OK" ->
                Commit(adjustTotalAndHandledRequestCounts(ins.db, model.queueId, 1,
                                                          handledCountAdjustment),
                       QueueOperationInfo(model.id, UNDEFINED))
          [] ins.code = ERROR_REQUEST_NOT_UNIQUE ->
                Commit(updateRequestByModel(db, model, t),
                       QueueOperationInfo(model.id, selectRequestOrderNoByModel(db, model)))
          [] ins.code = ERROR_QUEUE_DOES_NOT_EXIST ->
                Rollback(db, QueueDoesNotExist(model.queueId))

addRequestTx(db, model, t) ==
    LET ins == insertRequestByModel(db, model, t)
        handledCountAdjustment == IF model.orderNo = NULL THEN 1 ELSE 0
    IN  CASE ins.code = "OK" ->
                Commit(adjustTotalAndHandledRequestCounts(ins.db, model.queueId, 1,
                                                          handledCountAdjustment),
                       QueueOperationInfo(model.id, UNDEFINED))
          [] ins.code = ERROR_REQUEST_NOT_UNIQUE ->
                Commit(db, QueueOperationInfo(model.id, selectRequestOrderNoByModel(db, model)))
          [] ins.code = ERROR_QUEUE_DOES_NOT_EXIST ->
                Rollback(db, QueueDoesNotExist(model.queueId))

RECURSIVE BatchLoop(_, _, _, _, _)
\* the for loop of batchAddRequests: cur is the database inside the transaction,
\* start the database it rolls back to
BatchLoop(start, cur, models, processedRequests, t) ==
    IF models = << >>
    THEN Commit(cur, [processedRequests |-> processedRequests, unprocessedRequests |-> << >>])
    ELSE LET model == Head(models)
             ins == insertRequestByModel(cur, model, t)
             handledCountAdjustment ==
                 IF model.orderNo = NULL \/ model.orderNo = UNDEFINED THEN 1 ELSE 0
         IN  CASE ins.code = "OK" ->
                    BatchLoop(start,
                              adjustTotalAndHandledRequestCounts(ins.db, model.queueId, 1,
                                                                 handledCountAdjustment),
                              Tail(models),
                              Append(processedRequests,
                                     ProcessedRequest(model.id, model.uniqueKey, UNDEFINED)),
                              t)
               [] ins.code = ERROR_REQUEST_NOT_UNIQUE ->
                    BatchLoop(start, cur, Tail(models),
                              Append(processedRequests,
                                     ProcessedRequest(model.id, model.uniqueKey,
                                                      selectRequestOrderNoByModel(cur, model))),
                              t)
               [] ins.code = ERROR_QUEUE_DOES_NOT_EXIST ->
                    Rollback(start, QueueDoesNotExist(model.queueId))

\* a faulty variant: no transaction around the loop, so the items inserted before the
\* failing one stay
batchAddRequestsTxKeepingInserted(db, models, t) ==
    LET out == BatchLoop(db, db, models, << >>, t)
        done == { k \in 0..Len(models) :
                      BatchLoop(db, db, SubSeq(models, 1, k), << >>, t).err = NoError }
        last == CHOOSE k \in done : \A o \in done : o <= k
    IN  IF out.err = NoError THEN out
        ELSE [out EXCEPT !.db = BatchLoop(db, db, SubSeq(models, 1, last), << >>, t).db]

\* a faulty variant: every item is reported as the queue was before the batch
batchAddRequestsTxReportingStart(db, models, t) ==
    LET out == BatchLoop(db, db, models, << >>, t)
    IN  IF out.err # NoError THEN out
        ELSE [out EXCEPT !.ret.processedRequests =
                 [i \in 1..Len(models) |->
                     ProcessedRequest(models[i].id, models[i].uniqueKey,
                                      selectRequestOrderNoByModel(db, models[i]))]]

batchAddRequestsTx(db, models, t) ==
    BatchLoop(db, db, models, << >>, t)

\* a faulty variant: a change of the handled state always counts up
updateRequestTxCountingUp(db, model, t) ==
    LET orderNo == selectRequestOrderNoByModel(db, model)
        changing == IF TypeOf(orderNo) # TypeOf(model.orderNo) THEN 1 ELSE 0
    IN  IF orderNo = UNDEFINED
        THEN addRequestTx(db, model, t)
        ELSE Commit(adjustTotalAndHandledRequestCounts(updateRequestByModel(db, model, t),
                                                       model.queueId, 0, changing),
                    QueueOperationInfo(model.id, orderNo))

\* a faulty variant: a request that is not there is not inserted
updateRequestTxNeverInserting(db, model, t) ==
    LET orderNo == selectRequestOrderNoByModel(db, model)
        changing == IF TypeOf(orderNo) # TypeOf(model.orderNo) THEN 1 ELSE 0
        handledCountAdjustment == IF orderNo = NULL THEN -changing ELSE changing
    IN  IF orderNo = UNDEFINED
        THEN Commit(db, QueueOperationInfo(model.id, orderNo))
        ELSE Commit(adjustTotalAndHandledRequestCounts(updateRequestByModel(db, model, t),
                                                       model.queueId, 0, handledCountAdjustment),
                    QueueOperationInfo(model.id, orderNo))

updateRequestTx(db, model, t) ==
    LET orderNo == selectRequestOrderNoByModel(db, model)
        isRequestHandledStateChanging == TypeOf(orderNo) # TypeOf(model.orderNo)
        requestWasHandledBeforeUpdate == orderNo = NULL
        changing == IF isRequestHandledStateChanging THEN 1 ELSE 0
        handledCountAdjustment == IF requestWasHandledBeforeUpdate THEN -changing ELSE changing
    IN  IF orderNo = UNDEFINED
        THEN addRequestTx(db, model, t)
        ELSE Commit(adjustTotalAndHandledRequestCounts(updateRequestByModel(db, model, t),
                                                       model.queueId, 0, handledCountAdjustment),
                    QueueOperationInfo(model.id, orderNo))

\* a faulty variant: the new orderNo keeps the sign the row had
prolongRequestLockTxKeepingSign(db, id, lockSecs, forefront, t) ==
    LET found == fetchRequestNotExpired(db, id)
        existingRequest == FirstRow(found)
        unlockTimestamp == Abs(existingRequest.orderNo.v) + lockSecs * MsPerSec
        newOrderNo == IF existingRequest.orderNo.v < 0 THEN -unlockTimestamp ELSE unlockTimestamp
    IN  IF found = {}
        THEN Rollback(db, "Request with ID " \o id \o " was already handled or doesn't exist")
        ELSE Commit(updateOrderNo(db, id, newOrderNo, t), unlockTimestamp)

\* a faulty variant: the lock is prolonged from the current time, not from its expiry
prolongRequestLockTxFromNow(db, id, lockSecs, forefront, t) ==
    LET found == fetchRequestNotExpired(db, id)
        unlockTimestamp == t + lockSecs * MsPerSec
        newOrderNo == IF forefront THEN -unlockTimestamp ELSE unlockTimestamp
    IN  IF found = {}
        THEN Rollback(db, "Request with ID " \o id \o " was already handled or doesn't exist")
        ELSE Commit(updateOrderNo(db, id, newOrderNo, t), unlockTimestamp)

prolongRequestLockTx(db, id, lockSecs, forefront, t) ==
    LET found == fetchRequestNotExpired(db, id)
        existingRequest == FirstRow(found)
        unlockTimestamp == Abs(existingRequest.orderNo.v) + lockSecs * MsPerSec
        newOrderNo == IF forefront THEN -unlockTimestamp ELSE unlockTimestamp
    IN  IF found = {}
        THEN Rollback(db, "Request with ID " \o id \o " was already handled or doesn't exist")
        ELSE Commit(updateOrderNo(db, id, newOrderNo, t), unlockTimestamp)

\* a faulty variant: the released request becomes available a millisecond later
deleteRequestLockTxNextMillisecond(db, id, forefront, t) ==
    LET timestamp == t + 1
        found == fetchRequestNotExpiredAndLocked(db, id, t)
    IN  IF found = {}
        THEN Rollback(db, "Request with ID " \o id
                          \o " was already handled, doesn't exist, or is not locked")
        ELSE Commit(updateOrderNo(db, id, IF forefront THEN -timestamp ELSE timestamp, t),
                    UNDEFINED)

deleteRequestLockTx(db, id, forefront, t) ==
    LET timestamp == t
        found == fetchRequestNotExpiredAndLocked(db, id, timestamp)
    IN  IF found = {}
        THEN Rollback(db, "Request with ID " \o id
                          \o " was already handled, doesn't exist, or is not locked")
        ELSE Commit(updateOrderNo(db, id, IF forefront THEN -timestamp ELSE timestamp, t),
                    UNDEFINED)

\* a faulty variant: the rows are returned but their orderNo is not rewritten
LockLoopWritingNothing(db, requestsToLock, unlockTimestamp, t) ==
    db

\* a faulty variant: every locked row gets a positive orderNo
LockLoopLosingSign(db, requestsToLock, unlockTimestamp, t) ==
    [db EXCEPT !.requests =
        { IF \E i \in 1..Len(requestsToLock) : requestsToLock[i].id = r.id
          THEN [r EXCEPT !.orderNo = Num(unlockTimestamp)]
          ELSE r : r \in db.requests },
              !.queues = BumpTrigger(db.queues, QueueId, t)]

\* a faulty variant: the rows stay locked a second longer than asked
LockLoopOverlong(db, requestsToLock, unlockTimestamp, t) ==
    [db EXCEPT !.requests =
        { IF \E i \in 1..Len(requestsToLock) : requestsToLock[i].id = r.id
          THEN [r EXCEPT !.orderNo = Num((unlockTimestamp + MsPerSec)
                                         * (IF r.orderNo.v > 0 THEN 1 ELSE -1))]
          ELSE r : r \in @ }]

RECURSIVE LockLoop(_, _, _, _)
\* the for loop of listAndLockHead over requestsToLock
LockLoop(db, requestsToLock, unlockTimestamp, t) ==
    IF requestsToLock = << >> THEN db
    ELSE LET r == Head(requestsToLock)
             newOrderNo == unlockTimestamp * (IF r.orderNo.v > 0 THEN 1 ELSE -1)
         IN  LockLoop(updateOrderNo(db, r.id, newOrderNo, t), Tail(requestsToLock),
                      unlockTimestamp, t)

listAndLockHeadTx(db, queueId, limit, lockSecs, t) ==
    LET timestamp == t
        requestsToLock == fetchRequestHeadThatWillBeLocked(db, queueId, limit, timestamp)
    IN  IF Len(requestsToLock) = 0
        THEN Commit(db, << >>)
        ELSE Commit(LockLoop(db, requestsToLock, timestamp + lockSecs * MsPerSec, t),
                    [i \in 1..Len(requestsToLock) |-> requestsToLock[i].json])

(***************************************************************************)
(* RequestQueueClient.                                                     *)
(***************************************************************************)
FieldNames == {"id", "url", "uniqueKey", "method", "retryCount", "handledAt", "userData"}

\* the value JSON.stringify writes for a property: a Date is written as the string its
\* toJSON() gives, null and the other values as they are
ToJson(x) ==
    IF x.t = "date" THEN Str(x.v) ELSE x

\* JSON.stringify(obj): a string holding the members of obj, a property whose value is
\* undefined left out
JsonStringify(obj) ==
    Str({ <<f, ToJson(obj[f])>> : f \in { g \in DOMAIN obj : obj[g] # UNDEFINED } })

\* JSON.parse(text): reading a property the text does not hold gives undefined
JsonParse(text) ==
    [f \in FieldNames |->
        IF \E p \in text.v : p[1] = f THEN (CHOOSE p \in text.v : p[1] = f)[2] ELSE UNDEFINED]

\* a faulty variant: no property is deleted
purgeNullsFromObjectKeepingNulls(object) ==
    object

\* utils.purgeNullsFromObject: deletes the properties whose value is null
purgeNullsFromObject(object) ==
    [f \in DOMAIN object |-> IF object[f] = NULL THEN UNDEFINED ELSE object[f]]

_jsonToRequest(requestJson) ==
    IF requestJson = UNDEFINED THEN UNDEFINED
    ELSE purgeNullsFromObject(JsonParse(requestJson))

_calculateOrderNo(request, forefront, t) ==
    IF Truthy(request.handledAt) THEN NULL
    ELSE LET timestamp == t IN Num(IF forefront THEN -timestamp ELSE timestamp)

\* gives the model, or the error thrown when the id does not match the uniqueKey
_createRequestModel(request, forefront, t) ==
    LET orderNo == _calculateOrderNo(request, forefront, t)
        id == uniqueKeyToRequestId(request.uniqueKey.v)
    IN  IF Truthy(request.id) /\ Str(id) # request.id
        THEN [err |-> "Request ID does not match its uniqueKey.", model |-> UNDEFINED]
        ELSE [err |-> NoError,
              model |-> [id |-> id, queueId |-> QueueId, orderNo |-> orderNo,
                         url |-> request.url, uniqueKey |-> request.uniqueKey,
                         method |-> request.method, retryCount |-> request.retryCount,
                         json |-> JsonStringify([request EXCEPT !.id = Str(id)])]]

\* requestShape: url and uniqueKey strings, the rest optional
RequestShapeOk(request) ==
    /\ request.url.t = "string"
    /\ request.uniqueKey.t = "string"
    /\ request.method.t \in {"undefined", "string"}
    /\ request.retryCount.t \in {"undefined", "number"}
    /\ request.handledAt.t \in {"undefined", "string", "date"}

ArgumentError == "ArgumentError"

\* queue.id = queue.name with queue undefined
NameOfUndefined == "TypeError: Cannot read properties of undefined (reading 'name')"

\* what an operation that neither reads nor writes the database gives
Rejected(db, err) ==
    [db |-> db, ret |-> UNDEFINED, err |-> err]

\* RequestQueueClient.name: the calls are made through a client of the name under which
\* the directory of the queue is
ClientName ==
    IF storage = "moved" THEN NewName ELSE QueueName

\* RequestQueueClient._getEmulator(): the error of the emulator's constructor, if any
_getEmulator ==
    RequestQueueEmulator(storage, ClientName)

\* a faulty variant: the operation runs whether the emulator could be made or not
OnEmulatorUnchecked(db, out) ==
    out

\* this._getEmulator().operation(...)
OnEmulator(db, out) ==
    IF _getEmulator # NoError THEN Rejected(db, _getEmulator) ELSE out

\* RequestQueueClient.addRequest(request, {forefront})
addRequest(db, request, forefront, t) ==
    IF ~ (request.id = UNDEFINED /\ RequestShapeOk(request))
    THEN Rejected(db, ArgumentError)
    ELSE LET m == _createRequestModel(request, forefront, t)
         IN  IF m.err # NoError THEN Rejected(db, m.err)
             ELSE OnEmulator(db, addRequestTx(db, m.model, t))

\* RequestQueueClient.batchAddRequests(requests, {forefront}): every request is
\* validated as addRequest validates its one, then every model is made, then the
\* emulator is called
batchAddRequests(db, reqs, forefront, t) ==
    IF \E i \in 1..Len(reqs) : ~ (reqs[i].id = UNDEFINED /\ RequestShapeOk(reqs[i]))
    THEN Rejected(db, ArgumentError)
    ELSE LET ms == [i \in 1..Len(reqs) |-> _createRequestModel(reqs[i], forefront, t)]
         IN  OnEmulator(db, batchAddRequestsTx(db, [i \in 1..Len(reqs) |-> ms[i].model], t))

\* a faulty variant: the id is compared with the uniqueKey after the row is written
updateRequestCheckingIdLate(db, request, forefront, t) ==
    IF ~ (request.id.t = "string" /\ RequestShapeOk(request))
    THEN Rejected(db, ArgumentError)
    ELSE LET m == _createRequestModel(request, forefront, t)
             w == _createRequestModel([request EXCEPT !.id = UNDEFINED], forefront, t)
             out == OnEmulator(db, updateRequestTx(db, w.model, t))
         IN  IF m.err # NoError THEN [out EXCEPT !.err = m.err, !.ret = UNDEFINED]
             ELSE out

\* RequestQueueClient.updateRequest(request, {forefront})
updateRequest(db, request, forefront, t) ==
    IF ~ (request.id.t = "string" /\ RequestShapeOk(request))
    THEN Rejected(db, ArgumentError)
    ELSE LET m == _createRequestModel(request, forefront, t)
         IN  IF m.err # NoError THEN Rejected(db, m.err)
             ELSE OnEmulator(db, updateRequestTx(db, m.model, t))

\* a faulty variant: the ENOENT of the constructor is not caught
getRethrowingAll(db, t) ==
    LET db1 == updateAccessedAtById(db, QueueId, t)
        found == selectById(db1, QueueId)
    IN  OnEmulator(db, IF found = {} THEN Rejected(db1, NameOfUndefined)
                       ELSE Commit(db1, LET queue == CHOOSE q \in found : TRUE
                                        IN  [queue EXCEPT !.id = queue.name]))

\* RequestQueueClient.get(): the ENOENT of the constructor is caught and undefined is
\* returned; selectById gives undefined when the row is missing, and queue.name then
\* throws, outside any transaction
get(db, t) ==
    LET db1 == updateAccessedAtById(db, QueueId, t)
        found == selectById(db1, QueueId)
    IN  IF _getEmulator = QueueDirDoesNotExist(ClientName) THEN Commit(db, UNDEFINED)
        ELSE OnEmulator(db, IF found = {} THEN Rejected(db1, NameOfUndefined)
                            ELSE Commit(db1, LET queue == CHOOSE q \in found : TRUE
                                             IN  [queue EXCEPT !.id = queue.name]))

\* RequestQueueClient.getRequest(id)
getRequest(db, id, t) ==
    LET db1 == updateAccessedAtById(db, QueueId, t)
    IN  OnEmulator(db, Commit(db1, _jsonToRequest(selectRequestJsonByModel(db1, QueueId, id))))

\* RequestQueueClient.listHead({limit})
listHead(db, limit, t) ==
    LET db1 == updateAccessedAtById(db, QueueId, t)
        requestJsons == selectRequestJsonsByQueueIdWithLimit(db1, QueueId, limit)
    IN  OnEmulator(db, Commit(db1,
            [limit |-> limit,
             queueModifiedAt |-> selectModifiedAtById(db1, QueueId),
             hadMultipleClients |-> FALSE,
             items |-> [i \in 1..Len(requestJsons) |-> _jsonToRequest(requestJsons[i])]]))

(***************************************************************************)
(* The operations as steps.  Every step is one call of the client or the   *)
(* emulator, taken at the clock time now.  The history variables do not    *)
(* influence the program: lastOp keeps the call and the outcome of the     *)
(* operations named in W (the watched ones), grant keeps the locks when W  *)
(* holds "locks".                                                          *)
(***************************************************************************)
BatchItems ==
    { r \in NewRequests : \/ r.uniqueKey = Str("key1") /\ r.method = Str("POST") /\ r.handledAt = UNDEFINED
                          \/ r.uniqueKey = Str("key2") /\ r.method = Str("GET") /\ r.handledAt # UNDEFINED }

\* what the callers of batchAddRequests pass: one or two requests
Batches == UNION { [1..n -> BatchItems] : n \in {1, 2} }

Unwatched == [op |-> "", args |-> << >>, ret |-> UNDEFINED, err |-> NoError]

Watch(W, op, args, out) ==
    /\ lastOp' = IF op \in W THEN [op |-> op, args |-> args, ret |-> out.ret, err |-> out.err]
                  ELSE Unwatched
    /\ prevOp' = IF op \in W /\ "pairs" \in W THEN lastOp ELSE Unwatched

\* a lock is "held" from the listAndLockHead that gave it until now reaches `until`;
\* it is "prolonged" once prolongRequestLock wrote the request, "updated" once
\* updateRequest did, "released" once deleteRequestLock did.  again: the request was
\* given while its previous lock was still "held", that is, after that lock ran out
NoGrant == [until |-> 0, state |-> "none", again |-> FALSE]

\* the request whose locks are followed; the requests differ in their uniqueKey only,
\* so what holds for this one holds for each
WatchedId == uniqueKeyToRequestId("key1")

Touch(W, id, what) ==
    grant' = IF "locks" \in W /\ id = WatchedId
                /\ grant.state \in {"held", "prolonged", "updated"}
             THEN [grant EXCEPT !.state =
                       IF @ = "updated" /\ what = "prolonged" THEN "updated" ELSE what]
             ELSE grant

\* the ids of the requests a head listing returned
ItemIds(jsons) ==
    { JsonParse(jsons[i]).id.v : i \in 1..Len(jsons) }

(***************************************************************************)
(* ApifyStorageLocal: the storage directory and purge().                   *)
(***************************************************************************)
\* the default of options.storageDir, resolved
DefaultStorageDir == "/apify_storage"

\* the storage directories there may be: the default one, and one under a directory
\* whose name holds the text INPUT
StorageDirs == {DefaultStorageDir, "/INPUTS/apify_storage"}

\* KEY_VALUE_STORE_KEYS.INPUT
INPUT == "INPUT"

\* LOCAL_ENV_VARS: the id of the default dataset, key-value store and request queue
DefaultId == "default"

\* STORAGE_NAMES
STORAGE_NAMES == [DATASETS |-> "datasets", KEY_VALUE_STORES |-> "key_value_stores",
                  REQUEST_QUEUES |-> "request_queues"]

\* path.join, path.resolve of an absolute path and a name
join(folder, name) ==
    folder \o "/" \o name

\* new RegExp(pattern).test(text), for a pattern of plain characters: the text holds the
\* pattern somewhere
RegExpTest(pattern, text) ==
    \E i \in 1..(Len(text) - Len(pattern) + 1) : SubSeq(text, i, i + Len(pattern) - 1) = pattern

\* the names an entry of a container may have
EntryNames == {"000000001.json", "INPUT.json", "MY_INPUTS.csv"}

\* a key-value store that is not the default one
OtherId == "other"

datasetDir(root) == join(root, STORAGE_NAMES.DATASETS)

keyValueStoreDir(root) == join(root, STORAGE_NAMES.KEY_VALUE_STORES)

requestQueueDir(root) == join(root, STORAGE_NAMES.REQUEST_QUEUES)

\* the directories of the three default containers
DefaultFolders(root) ==
    {join(datasetDir(root), DefaultId), join(keyValueStoreDir(root), DefaultId),
     join(requestQueueDir(root), DefaultId)}

\* the directories of the containers there may be
Folders(root) ==
    DefaultFolders(root) \cup {join(keyValueStoreDir(root), OtherId)}

pathExists(fs, path) ==
    path \in fs

\* readdir(folder): the names of the entries of the folder
readdir(fs, folder) ==
    { name \in EntryNames : join(folder, name) \in fs }

\* a variant of removeFiles that tries the name of the entry, not its path
removeFilesByName(fs, folder) ==
    IF ~ pathExists(fs, folder) THEN fs
    ELSE fs \ { join(folder, direntName) : direntName \in
                  { n \in readdir(fs, folder) : ~ RegExpTest(INPUT, n) } }

\* ApifyStorageLocal.removeFiles(folder): every entry of the folder whose path does not
\* match INPUT is removed, recursively
removeFiles(fs, folder) ==
    IF ~ pathExists(fs, folder) THEN fs
    ELSE fs \ { join(folder, direntName) : direntName \in
                  { n \in readdir(fs, folder) : ~ RegExpTest(INPUT, join(folder, n)) } }

\* ApifyStorageLocal.purge()
purge(root, fs) ==
    LET defaultDatasetPath == join(datasetDir(root), DefaultId)
        defaultKeyValueStorePath == join(keyValueStoreDir(root), DefaultId)
        defaultRequestQueuePath == join(requestQueueDir(root), DefaultId)
    IN  removeFiles(removeFiles(removeFiles(fs, defaultDatasetPath),
                                defaultKeyValueStorePath),
                    defaultRequestQueuePath)

\* ensureDir(folder) of a container
EnsureFolder(folder) ==
    /\ folder \notin files
    /\ files' = files \cup {folder}
    /\ lastOp' = Unwatched
    /\ prevOp' = Unwatched
    /\ UNCHANGED <<now, queues, requests, storage, connections, taken, storageDir, worker, grant>>

\* writeFile(join(folder, name), data) in a container that is there
WriteFile(folder, name) ==
    /\ folder \in files
    /\ join(folder, name) \notin files
    /\ files' = files \cup {join(folder, name)}
    /\ lastOp' = Unwatched
    /\ prevOp' = Unwatched
    /\ UNCHANGED <<now, queues, requests, storage, connections, taken, storageDir, worker, grant>>

\* storage.purge(); the call and the paths there were before it are kept in lastOp
Purge ==
    /\ files' = purge(storageDir, files)
    /\ lastOp' = [op |-> "purge", args |-> <<files>>, ret |-> UNDEFINED, err |-> NoError]
    /\ prevOp' = Unwatched
    /\ UNCHANGED <<now, queues, requests, storage, connections, taken, storageDir, worker, grant>>

\* the errors a client's operation throws before it makes the emulator
BeforeEmulator == {ArgumentError, "Request ID does not match its uniqueKey."}

\* the directory of the queue the client names exists
DirExists == storage \in {"dir", "moved"}

\* no crawl loop is running
WorkerOff == [pc |-> "off", todo |-> << >>]

ApplyToDatabase(out) ==
    /\ queues' = out.db.queues
    /\ requests' = out.db.requests
    /\ storage' = storage
    /\ connections' = IF out.err \in BeforeEmulator THEN connections
                      ELSE openConnection(connections, ClientName, DirExists).cache
    /\ taken' = taken
    /\ UNCHANGED <<storageDir, files>>

Apply(out) ==
    /\ ApplyToDatabase(out)
    /\ UNCHANGED worker

Init ==
    /\ now = StartTime
    /\ queues = { [id |-> QueueId, name |-> QueueName, createdAt |-> StartTime,
                   modifiedAt |-> StartTime, accessedAt |-> StartTime,
                   totalRequestCount |-> 0, handledRequestCount |-> 0] }
    /\ requests = {}
    /\ storage = "dir"
    /\ connections = openConnection([p \in Paths |-> NoConnection], QueueName, TRUE).cache
    /\ taken = FALSE
    /\ storageDir = DefaultStorageDir
    /\ files = {}
    /\ lastOp = Unwatched
    /\ prevOp = Unwatched
    /\ worker = WorkerOff
    /\ grant = NoGrant

Tick ==
    /\ now < MaxTime
    /\ now' = now + MsPerSec
    /\ lastOp' = Unwatched
    /\ prevOp' = Unwatched
    /\ UNCHANGED <<queues, requests, storage, connections, taken, storageDir, worker, files, grant>>

AddRequest(W, request, forefront) ==
    LET out == addRequest(DB, request, forefront, now)
    IN  /\ Apply(out)
        /\ Watch(W, "addRequest", <<request>>, out)
        /\ UNCHANGED <<now, grant>>

BatchAddRequests(W, reqs, forefront) ==
    LET out == batchAddRequests(DB, reqs, forefront, now)
    IN  /\ Apply(out)
        /\ Watch(W, "batchAddRequests", <<reqs>>, out)
        /\ UNCHANGED <<now, grant>>

UpdateRequest(W, request, forefront) ==
    LET out == updateRequest(DB, request, forefront, now)
    IN  /\ Apply(out)
        /\ Watch(W, "updateRequest", <<request>>, out)
        /\ IF out.err = NoError THEN Touch(W, out.ret.requestId, "updated")
           ELSE UNCHANGED grant
        /\ UNCHANGED now

Get(W) ==
    LET out == get(DB, now)
    IN  /\ Apply(out)
        /\ Watch(W, "get", << >>, out)
        /\ UNCHANGED <<now, grant>>

GetRequest(W, id) ==
    LET out == getRequest(DB, id, now)
    IN  /\ Apply(out)
        /\ Watch(W, "getRequest", <<id>>, out)
        /\ UNCHANGED <<now, grant>>

ListHead(W, limit) ==
    LET out == listHead(DB, limit, now)
    IN  /\ Apply(out)
        /\ Watch(W, "listHead", <<limit>>, out)
        /\ UNCHANGED <<now, grant>>

ListAndLockHead(W, limit, lockSecs) ==
    LET out == OnEmulator(DB, listAndLockHeadTx(DB, QueueId, limit, lockSecs, now))
    IN  /\ Apply(out)
        /\ Watch(W, "listAndLockHead", <<limit, lockSecs>>, out)
        /\ grant' = IF "locks" \in W /\ WatchedId \in ItemIds(out.ret)
                    THEN [until |-> now + lockSecs * MsPerSec, state |-> "held",
                          again |-> grant.state = "held"]
                    ELSE grant
        /\ UNCHANGED now

\* the orderNo of the row of a request, undefined when it has no row
StoredOrderNo(db, id) ==
    IF \E r \in db.requests : r.id = id
    THEN (CHOOSE r \in db.requests : r.id = id).orderNo
    ELSE UNDEFINED

\* with "signs" watched, the orderNo the row had before the call is kept with what the
\* call was given
ProlongRequestLock(W, id, lockSecs, forefront) ==
    LET out == OnEmulator(DB, prolongRequestLockTx(DB, id, lockSecs, forefront, now))
    IN  /\ out.err = NoError => out.ret <= MaxOrderNo
        /\ Apply(out)
        /\ Watch(W, "prolongRequestLock",
                 IF "signs" \in W THEN <<id, lockSecs, forefront, StoredOrderNo(DB, id)>>
                 ELSE <<id, lockSecs, forefront>>, out)
        /\ IF out.err = NoError THEN Touch(W, id, "prolonged") ELSE UNCHANGED grant
        /\ UNCHANGED now

DeleteRequestLock(W, id, forefront) ==
    LET out == OnEmulator(DB, deleteRequestLockTx(DB, id, forefront, now))
    IN  /\ Apply(out)
        /\ Watch(W, "deleteRequestLock",
                 IF "signs" \in W THEN <<id, forefront, StoredOrderNo(DB, id)>>
                 ELSE <<id, forefront>>, out)
        /\ IF out.err = NoError THEN Touch(W, id, "released") ELSE UNCHANGED grant
        /\ UNCHANGED now

\* a variant: the method runs the statement of its name
deleteRequestByIdOfRequests(db, id, t) ==
    Commit(deleteRequestByIdStatement(db, id, t),
           Cardinality({ r \in db.requests : r.id = id }))

\* RequestQueueEmulator.deleteRequestById(id): runs statements.deleteById; it returns
\* the number of rows the statement deleted itself
deleteRequestById(db, id, t) ==
    Commit(deleteById(db, id),
           Cardinality({ q \in db.queues : q.id = CastAsInteger(id) }))

\* the ids deleteRequestById is called with: the ids of the requests of the queue and
\* the id uniqueKeyToRequestId gives for the unique key "https://example.com/181"
DeletedIds == RequestIds \cup {"1pcLTdMtMwGyUuK"}

DeleteRequestById(W, id) ==
    LET out == OnEmulator(DB, deleteRequestById(DB, id, now))
    IN  /\ Apply(out)
        /\ Watch(W, "deleteRequestById", <<id>>, out)
        /\ grant' = NoGrant
        /\ UNCHANGED now

\* RequestQueueCollectionClient.getOrCreate(name) up to its await: ensureDir(queueDir)
EnsureDir ==
    /\ storage' = IF storage = "none" THEN "dir" ELSE storage
    /\ lastOp' = Unwatched
    /\ prevOp' = Unwatched
    /\ UNCHANGED <<now, queues, requests, connections, taken, storageDir, worker, files, grant>>

\* getOrCreate(name) after its await, the directory being there: the emulator is made and
\* the queue's row is selected, or inserted when it is missing; the row is returned with
\* its name as id, and the call is kept in lastOp
SelectOrInsertByName ==
    LET out == OnEmulator(DB, selectOrInsertByNameTx(DB, ClientName, now))
    IN  /\ storage # "none"
        /\ Apply(out)
        /\ lastOp' = [op |-> "getOrCreate", args |-> <<ClientName>>,
                      ret |-> IF out.err = NoError THEN [out.ret EXCEPT !.id = out.ret.name]
                              ELSE UNDEFINED,
                      err |-> out.err]
        /\ prevOp' = Unwatched
        /\ UNCHANGED <<now, grant>>

\* RequestQueueClient.delete(): the emulator is made and disconnected, which closes the
\* cached connection, and the directory is removed with the database in it
Delete ==
    /\ IF _getEmulator = NoError
       THEN /\ storage' = "closed"
            /\ queues' = {}
            /\ requests' = {}
            /\ connections' = closeConnection(
                   openConnection(connections, ClientName, DirExists).cache, ClientName)
       ELSE UNCHANGED <<storage, queues, requests, connections>>
    /\ lastOp' = Unwatched
    /\ prevOp' = Unwatched
    /\ grant' = NoGrant
    /\ UNCHANGED <<now, taken, storageDir, worker, files>>

\* a queue id that has no row: each database holds the one queue, of id 1
OtherQueueId == 2

\* batches of request models as the emulator may be given them, with a model that names
\* a queue that is not there: alone, after a good model, before a good model
ForeignBatches(t) ==
    LET good == _createRequestModel(MkRequest(UNDEFINED, Str("key1"),
                    CHOOSE v \in Variants : v.method = Str("GET"), UNDEFINED), FALSE, t).model
        other == _createRequestModel(MkRequest(UNDEFINED, Str("key2"),
                    CHOOSE v \in Variants : v.method = Str("GET"), UNDEFINED), FALSE, t).model
        foreign == [other EXCEPT !.queueId = OtherQueueId]
    IN  { <<foreign>>, <<good, foreign>>, <<foreign, good>> }

\* RequestQueueEmulator.batchAddRequests(requestModels), called on an emulator that could
\* be made; the call and its outcome are kept in lastOp
EmulatorBatchAddRequests(models) ==
    LET out == batchAddRequestsTx(DB, models, now)
    IN  /\ storage = "dir"
        /\ Apply(out)
        /\ lastOp' = [op |-> "emulator.batchAddRequests", args |-> <<models>>,
                      ret |-> out.ret, err |-> out.err]
        /\ prevOp' = Unwatched
        /\ UNCHANGED <<now, grant>>

NameNotUnique == "Request queue name is not unique."

\* newFields.name: the name the queue does not have
OtherName ==
    IF ClientName = QueueName THEN NewName ELSE QueueName

\* a variant of update that looks for the new directory before it disconnects
updateCheckingFirst(db, st, cache, name, newName, destExists, t) ==
    IF RequestQueueEmulator(st, name) # NoError
    THEN [db |-> db, storage |-> st, connections |-> cache, ret |-> UNDEFINED,
          err |-> RequestQueueEmulator(st, name)]
    ELSE IF destExists
    THEN [db |-> db, storage |-> st, connections |-> openConnection(cache, name, TRUE).cache,
          ret |-> UNDEFINED, err |-> NameNotUnique]
    ELSE [db |-> db, storage |-> IF st = "dir" THEN "moved" ELSE "closed",
          connections |-> closeConnection(openConnection(cache, name, TRUE).cache, name),
          ret |-> UNDEFINED, err |-> ConnectionNotOpen]

\* a variant of update that reconnects after the move: the emulator is made anew, on a
\* new connection to the database in the new directory
updateReconnecting(db, st, cache, name, newName, destExists, t) ==
    IF RequestQueueEmulator(st, name) # NoError
    THEN [db |-> db, storage |-> st, connections |-> cache, ret |-> UNDEFINED,
          err |-> RequestQueueEmulator(st, name)]
    ELSE IF destExists
    THEN [db |-> db, storage |-> st, connections |-> cache, ret |-> UNDEFINED,
          err |-> NameNotUnique]
    ELSE LET db1 == updateModifiedAtById(updateNameById(db, QueueId, newName), QueueId, t)
             queue == CHOOSE q \in selectById(db1, QueueId) : TRUE
             moved == IF st = "dir" THEN "moved" ELSE "dir"
         IN  IF selectById(db1, QueueId) = {}
             THEN [db |-> db1, storage |-> moved, connections |-> cache,
                   ret |-> UNDEFINED, err |-> NameOfUndefined]
             ELSE [db |-> db1, storage |-> moved, connections |-> cache,
                   ret |-> [queue EXCEPT !.id = queue.name], err |-> NoError]

\* RequestQueueClient.update({name: newName}) of the client of the queue `name`: the
\* emulator is made and disconnected, which closes its
\* connection; the directory is moved unless the new name has one, and updateNameById is
\* then run on the emulator the client has kept, on the connection it was made with.  A
\* queue that was moved is moved back to its first name, where the cache still holds the
\* connection the first move closed
update(db, st, cache, name, newName, destExists, t) ==
    IF RequestQueueEmulator(st, name) # NoError
    THEN [db |-> db, storage |-> st, connections |-> cache, ret |-> UNDEFINED,
          err |-> RequestQueueEmulator(st, name)]
    ELSE LET opened == openConnection(cache, name, TRUE)
             closed == closeConnection(opened.cache, name)
         IN  IF destExists
             THEN [db |-> db, storage |-> "closed", connections |-> closed,
                   ret |-> UNDEFINED, err |-> NameNotUnique]
             ELSE LET moved == IF st = "dir" THEN "moved" ELSE "closed"
                      db1 == updateModifiedAtById(updateNameById(db, QueueId, newName),
                                                  QueueId, t)
                      queue == CHOOSE q \in selectById(db1, QueueId) : TRUE
                  IN  IF ~ closed[name].open
                      THEN [db |-> db, storage |-> moved, connections |-> closed,
                            ret |-> UNDEFINED, err |-> ConnectionNotOpen]
                      ELSE IF selectById(db1, QueueId) = {}
                      THEN [db |-> db1, storage |-> moved, connections |-> closed,
                            ret |-> UNDEFINED, err |-> NameOfUndefined]
                      ELSE [db |-> db1, storage |-> moved, connections |-> closed,
                            ret |-> [queue EXCEPT !.id = queue.name], err |-> NoError]

\* RequestQueueClient.update({name}) of the queue
Update(W) ==
    LET out == update(DB, storage, connections, ClientName, OtherName, taken, now)
    IN  /\ queues' = out.db.queues
        /\ requests' = out.db.requests
        /\ storage' = out.storage
        /\ connections' = out.connections
        /\ Watch(W, "update", <<OtherName>>, out)
        /\ grant' = NoGrant
        /\ UNCHANGED <<now, taken, storageDir, worker, files>>

\* getOrCreate(name) of the name the queue does not have, up to its await:
\* ensureDir(queueDir)
EnsureOtherDir ==
    /\ ~ taken
    /\ taken' = TRUE
    /\ lastOp' = Unwatched
    /\ prevOp' = Unwatched
    /\ UNCHANGED <<now, queues, requests, storage, connections, storageDir, worker, files, grant>>

Step(W) ==
    \/ Tick
    \/ \E request \in AddInputs, forefront \in BOOLEAN : AddRequest(W, request, forefront)
    \/ \E reqs \in Batches, forefront \in BOOLEAN : BatchAddRequests(W, reqs, forefront)
    \/ \E request \in UpdateInputs, forefront \in BOOLEAN : UpdateRequest(W, request, forefront)
    \/ Get(W)
    \/ \E id \in RequestIds : GetRequest(W, id)
    \/ \E limit \in Limits : ListHead(W, limit)
    \/ \E limit \in Limits, lockSecs \in LockSecsValues : ListAndLockHead(W, limit, lockSecs)
    \/ \E id \in RequestIds, lockSecs \in LockSecsValues, forefront \in BOOLEAN :
           ProlongRequestLock(W, id, lockSecs, forefront)
    \/ \E id \in RequestIds, forefront \in BOOLEAN : DeleteRequestLock(W, id, forefront)

\* every operation, any interleaving, no history kept
Next == Step({})

Spec == Init /\ [][Next]_vars

\* the same program, with the calls of addRequest kept in lastOp
NextAdd == Step({"addRequest"})

SpecAdd == Init /\ [][NextAdd]_vars

\* the same program, with the calls of updateRequest kept in lastOp
NextUpdate == Step({"updateRequest"})

SpecUpdate == Init /\ [][NextUpdate]_vars

\* the same program, with the locks kept in grant
NextLock == Step({"locks"})

SpecLock == Init /\ [][NextLock]_vars

\* the same program, with the last two consecutive calls of listAndLockHead kept in
\* prevOp and lastOp
NextLockPair == Step({"listAndLockHead", "pairs"})

SpecLockPair == Init /\ [][NextLockPair]_vars

\* the same program, with the calls of prolongRequestLock and deleteRequestLock kept
\* in lastOp
NextLockCall == Step({"prolongRequestLock", "deleteRequestLock"})

SpecLockCall == Init /\ [][NextLockCall]_vars

\* A crawl loop.  Requests are added, and some locked by a caller that then stops, while
\* the worker is off; once it has started nothing is added, and the worker calls
\* listAndLockHead, marks each request it was given handled through updateRequest, and
\* calls listAndLockHead again.
Fill ==
    /\ worker.pc = "off"
    /\ \/ \E request \in NewRequests, forefront \in BOOLEAN : AddRequest({}, request, forefront)
       \/ \E limit \in Limits, lockSecs \in LockSecsValues :
              /\ now + lockSecs * MsPerSec <= MaxTime
              /\ ListAndLockHead({}, limit, lockSecs)

Start ==
    /\ worker.pc = "off"
    /\ worker' = [pc |-> "list", todo |-> << >>]
    /\ lastOp' = Unwatched
    /\ prevOp' = Unwatched
    /\ UNCHANGED <<now, queues, requests, storage, connections, taken, storageDir, files,
                   grant>>

\* the limits the worker asks with
WorkerLimits == Limits \ {0}

WorkerList(limit, lockSecs) ==
    /\ worker.pc = "list"
    /\ \E out \in {OnEmulator(DB, listAndLockHeadTx(DB, QueueId, limit, lockSecs, now))} :
           /\ ApplyToDatabase(out)
           /\ worker' = IF out.err = NoError /\ Len(out.ret) > 0
                        THEN [pc |-> "mark", todo |-> out.ret]
                        ELSE worker
    /\ lastOp' = Unwatched
    /\ prevOp' = Unwatched
    /\ UNCHANGED <<now, grant>>

\* the request of the first json the worker holds, with handledAt set
WorkerRequest ==
    [_jsonToRequest(Head(worker.todo)) EXCEPT !.handledAt = Str("2020-01-01T00:00:00.000Z")]

WorkerMark ==
    /\ worker.pc = "mark"
    /\ \E request \in {WorkerRequest} :
           \E out \in {updateRequest(DB, request, FALSE, now)} : ApplyToDatabase(out)
    /\ worker' = IF Len(worker.todo) = 1 THEN [pc |-> "list", todo |-> << >>]
                 ELSE [worker EXCEPT !.todo = Tail(@)]
    /\ lastOp' = Unwatched
    /\ prevOp' = Unwatched
    /\ UNCHANGED <<now, grant>>

NextCrawl ==
    \/ Tick
    \/ Fill
    \/ Start
    \/ \E limit \in WorkerLimits, lockSecs \in LockSecsValues : WorkerList(limit, lockSecs)
    \/ WorkerMark

\* the worker keeps calling and the clock keeps advancing
SpecCrawl ==
    /\ Init
    /\ [][NextCrawl]_vars
    /\ WF_vars(Tick)
    /\ WF_vars(\E limit \in WorkerLimits, lockSecs \in LockSecsValues :
                   WorkerList(limit, lockSecs))
    /\ WF_vars(WorkerMark)

\* the same program and the emulator's deleteRequestById, whose calls are kept in lastOp
NextRowDelete ==
    \/ Step({"deleteRequestById"})
    \/ \E id \in DeletedIds : DeleteRequestById({"deleteRequestById"}, id)

SpecRowDelete == Init /\ [][NextRowDelete]_vars

\* the same program, with the calls of prolongRequestLock and deleteRequestLock kept in
\* lastOp together with the orderNo their request had before
NextLockSign == Step({"prolongRequestLock", "deleteRequestLock", "signs"})

SpecLockSign == Init /\ [][NextLockSign]_vars

\* the program from before the queue is created: the directory is made, the row is
\* inserted, the queue is used and deleted; the calls of getRequest, of get and of the emulator's
\* batchAddRequests are kept in lastOp
InitStorage ==
    /\ now = StartTime
    /\ queues = {}
    /\ requests = {}
    /\ storage = "none"
    /\ connections = [p \in Paths |-> NoConnection]
    /\ taken = FALSE
    /\ storageDir = DefaultStorageDir
    /\ files = {}
    /\ lastOp = Unwatched
    /\ prevOp = Unwatched
    /\ worker = WorkerOff
    /\ grant = NoGrant

NextStorage ==
    \/ Step({"getRequest", "get"})
    \/ EnsureDir
    \/ SelectOrInsertByName
    \/ Delete
    \/ \E models \in ForeignBatches(now) : EmulatorBatchAddRequests(models)

SpecStorage == InitStorage /\ [][NextStorage]_vars

\* the program from the created queue on, with the calls of batchAddRequests kept in
\* lastOp
NextBatch == Step({"batchAddRequests"})

SpecBatch == Init /\ [][NextBatch]_vars

\* the program from before the queue is created, with getOrCreate, update({name}) and
\* delete() among the calls
NextRename ==
    \/ Step({})
    \/ EnsureDir
    \/ SelectOrInsertByName
    \/ Delete
    \/ Update({})

SpecRename == InitStorage /\ [][NextRename]_vars

\* the program from the created queue on, with update({name}) among the calls and kept
\* in lastOp, and with the directory of another queue made under the new name
NextConflict ==
    \/ Step({"update"})
    \/ Update({"update"})
    \/ EnsureOtherDir

SpecConflict == Init /\ [][NextConflict]_vars

\* the storage directory: containers are made, entries are written, purge() is called
InitPurge ==
    /\ now = StartTime
    /\ queues = {}
    /\ requests = {}
    /\ storage = "none"
    /\ connections = [p \in Paths |-> NoConnection]
    /\ taken = FALSE
    /\ storageDir \in StorageDirs
    /\ files = {}
    /\ lastOp = Unwatched
    /\ prevOp = Unwatched
    /\ worker = WorkerOff
    /\ grant = NoGrant

NextPurge ==
    \/ \E folder \in Folders(storageDir) : EnsureFolder(folder)
    \/ \E folder \in Folders(storageDir), name \in EntryNames : WriteFile(folder, name)
    \/ Purge

SpecPurge == InitPurge /\ [][NextPurge]_vars

(***************************************************************************)
(* Properties.                                                             *)
(***************************************************************************)
\* the row of a request id, if any
RowOf(rows, id) ==
    { r \in rows : r.queueId = QueueId /\ r.id = id }

TheQueue(qs) ==
    CHOOSE q \in qs : q.id = QueueId

\* C1: after any sequence of addRequest, batchAddRequests, updateRequest,
\* listAndLockHead, prolongRequestLock and deleteRequestLock, totalRequestCount is
\* the number of request rows, handledRequestCount the number of rows whose orderNo
\* is NULL, and pendingRequestCount is never negative.
C1_CountersMatchRows ==
    \A q \in queues :
        /\ q.totalRequestCount = Cardinality({ r \in requests : r.queueId = q.id })
        /\ q.handledRequestCount =
               Cardinality({ r \in requests : r.queueId = q.id /\ r.orderNo = NULL })
        /\ pendingRequestCount(q) >= 0

\* two rows, one handled, the other one locked
C1_Witness ==
    \E q \in queues :
        /\ q.totalRequestCount = 2
        /\ q.handledRequestCount = 1
        /\ \E r \in requests : r.orderNo # NULL /\ Abs(r.orderNo.v) > now

\* the ids listAndLockHead would return if it were called now
WouldLock(db, limit, lockSecs, t) ==
    ItemIds(listAndLockHeadTx(db, QueueId, limit, lockSecs, t).ret)

\* C2 (as the specification states it): once listAndLockHead at time t with lockSecs
\* has returned a request, no listAndLockHead call made before t + lockSecs*1000
\* returns it, whatever addRequest, updateRequest, prolongRequestLock and listHead
\* calls come in between, unless deleteRequestLock was called for it.
C2_LockExclusive ==
    (grant.state \in {"held", "prolonged", "updated"} /\ now < grant.until)
    => \A limit \in Limits, lockSecs \in LockSecsValues :
           WatchedId \notin WouldLock(DB, limit, lockSecs, now)

\* C2 (what the code keeps): the same, for the locks of requests that updateRequest
\* has not written since the lock was given.
C2_LockExclusiveUnlessUpdated ==
    (grant.state \in {"held", "prolonged"} /\ now < grant.until)
    => \A limit \in Limits, lockSecs \in LockSecsValues :
           WatchedId \notin WouldLock(DB, limit, lockSecs, now)

\* the request is locked, its lock still runs, and another request is available: a
\* listAndLockHead call made now returns that other one only
C2_Witness ==
    /\ grant.state = "held"
    /\ now < grant.until
    /\ \E lockSecs \in LockSecsValues :
           /\ WouldLock(DB, 2, lockSecs, now) # {}
           /\ WatchedId \notin WouldLock(DB, 2, lockSecs, now)

\* the requests listAndLockHead can take at time t
Available(rows, t) ==
    { r \in rows : r.queueId = QueueId /\ r.orderNo # NULL /\ Abs(r.orderNo.v) <= t }

\* C3: with N available requests and two concurrent listAndLockHead calls of limit
\* N/2 each (one transaction after the other, the second in the same or the next
\* millisecond), each call returns at most its limit, the two returned sets are
\* disjoint, and together they are all N requests, each exactly once.
C3_ConcurrentLockPartitionsHead ==
    LET N == Cardinality(Available(requests, now))
    IN  N % 2 = 0 =>
        \A lockSecs \in LockSecsValues, later \in {0, 1} :
            LET first == listAndLockHeadTx(DB, QueueId, N \div 2, lockSecs, now)
                second == listAndLockHeadTx(first.db, QueueId, N \div 2, lockSecs, now + later)
            IN  /\ Len(first.ret) <= N \div 2
                /\ Len(second.ret) <= N \div 2
                /\ ItemIds(first.ret) \cap ItemIds(second.ret) = {}
                /\ ItemIds(first.ret) \cup ItemIds(second.ret)
                       = { r.id : r \in Available(requests, now) }
                /\ Len(first.ret) + Len(second.ret) = N

\* two pending requests, and two consecutive calls of limit 1 in the same millisecond
\* gave them, one each
C3_Witness ==
    /\ prevOp.op = "listAndLockHead"
    /\ lastOp.op = "listAndLockHead"
    /\ prevOp.args = lastOp.args
    /\ lastOp.args[1] = 1
    /\ Len(prevOp.ret) = 1
    /\ Len(lastOp.ret) = 1
    /\ ItemIds(prevOp.ret) \cap ItemIds(lastOp.ret) = {}
    /\ ItemIds(prevOp.ret) \cup ItemIds(lastOp.ret) = { r.id : r \in { x \in requests : x.orderNo # NULL } }

\* C4: a request locked by listAndLockHead at time t for lockSecs, and not prolonged,
\* released or updated since, is returned by a listAndLockHead call of sufficient
\* limit made at any time >= t + lockSecs*1000, with no other operation run first.
C4_LockExpires ==
    (grant.state = "held" /\ now >= grant.until)
    => \A lockSecs \in LockSecsValues :
           WatchedId \in WouldLock(DB, Cardinality(requests), lockSecs, now)

\* the request was given a second time, after its first lock ran out
C4_Witness ==
    grant.state = "held" /\ grant.again

\* the id a request gets
IdOf(request) ==
    uniqueKeyToRequestId(request.uniqueKey.v)

\* C5: addRequest is idempotent per uniqueKey: adding a request whose uniqueKey is
\* already in the queue returns the same requestId with wasAlreadyPresent = true, adds
\* no row and leaves totalRequestCount and handledRequestCount as they were, so the
\* adds of one uniqueKey raise totalRequestCount by exactly 1.
C5_AddIsIdempotent ==
    \A request \in NewRequests, forefront \in BOOLEAN :
        LET out == addRequest(DB, request, forefront, now)
        IN  IF \E r \in requests : r.uniqueKey = request.uniqueKey
            THEN /\ out.err = NoError
                 /\ out.ret.requestId = IdOf(request)
                 /\ \E r \in requests : r.uniqueKey = request.uniqueKey /\ r.id = out.ret.requestId
                 /\ out.ret.wasAlreadyPresent
                 /\ out.db.requests = requests
                 /\ TheQueue(out.db.queues).totalRequestCount = TheQueue(queues).totalRequestCount
                 /\ TheQueue(out.db.queues).handledRequestCount
                        = TheQueue(queues).handledRequestCount
            ELSE \A other \in NewRequests, otherForefront \in BOOLEAN :
                     other.uniqueKey = request.uniqueKey =>
                     LET again == addRequest(out.db, other, otherForefront, now)
                     IN  /\ ~ out.ret.wasAlreadyPresent
                         /\ again.ret.wasAlreadyPresent
                         /\ again.ret.requestId = out.ret.requestId
                         /\ TheQueue(again.db.queues).totalRequestCount
                                = TheQueue(queues).totalRequestCount + 1

\* an addRequest found its uniqueKey in the queue, and the queue still counts one request
C5_Witness ==
    /\ lastOp.op = "addRequest"
    /\ lastOp.err = NoError
    /\ lastOp.ret.wasAlreadyPresent
    /\ TheQueue(queues).totalRequestCount = 1
    /\ Cardinality(requests) = 1

\* the batches of one request, whatever the request
SingleBatches == [1..1 -> NewRequests]

\* C6: first write wins: addRequest or batchAddRequests of a request whose uniqueKey is
\* already present leaves the stored row as it was (orderNo, url, method, retryCount,
\* json), even when the new request differs in method or carries handledAt.
C6_FirstWriteWins ==
    /\ \A request \in NewRequests, forefront \in BOOLEAN :
           RowOf(requests, IdOf(request)) # {} =>
           RowOf(addRequest(DB, request, forefront, now).db.requests, IdOf(request))
               = RowOf(requests, IdOf(request))
    /\ \A reqs \in Batches \cup SingleBatches, forefront \in BOOLEAN :
           LET models == [i \in 1..Len(reqs) |->
                             _createRequestModel(reqs[i], forefront, now).model]
           IN  requests \subseteq batchAddRequestsTx(DB, models, now).db.requests

\* an addRequest with another method and with handledAt found its uniqueKey in the
\* queue; the stored row is pending and has its own method
C6_Witness ==
    /\ lastOp.op = "addRequest"
    /\ lastOp.err = NoError
    /\ lastOp.ret.wasAlreadyPresent
    /\ lastOp.args[1].handledAt # UNDEFINED
    /\ \E r \in RowOf(requests, lastOp.ret.requestId) :
           /\ r.method # lastOp.args[1].method
           /\ r.orderNo # NULL

\* C7: the flags addRequest and updateRequest return describe the state before the
\* call: wasAlreadyPresent is true exactly when a row with the request's id existed,
\* wasAlreadyHandled exactly when that row existed with orderNo NULL; so a fresh
\* insertion of a request carrying handledAt, and an update of a pending request to
\* handled, both return wasAlreadyHandled = false.
C7_FlagsDescribePriorState ==
    /\ \A request \in NewRequests, forefront \in BOOLEAN :
           LET out == addRequest(DB, request, forefront, now)
               prior == RowOf(requests, IdOf(request))
           IN  /\ out.err = NoError
               /\ out.ret.wasAlreadyPresent = (prior # {})
               /\ out.ret.wasAlreadyHandled = (\E r \in prior : r.orderNo = NULL)
    /\ \A request \in IdRequests, forefront \in BOOLEAN :
           LET out == updateRequest(DB, request, forefront, now)
               prior == RowOf(requests, IdOf(request))
           IN  /\ out.err = NoError
               /\ out.ret.wasAlreadyPresent = (prior # {})
               /\ out.ret.wasAlreadyHandled = (\E r \in prior : r.orderNo = NULL)

\* an updateRequest carrying handledAt found its request pending, and handled it
C7_Witness ==
    /\ lastOp.op = "updateRequest"
    /\ lastOp.err = NoError
    /\ lastOp.args[1].handledAt # UNDEFINED
    /\ lastOp.ret.wasAlreadyPresent
    /\ ~ lastOp.ret.wasAlreadyHandled
    /\ \E r \in RowOf(requests, lastOp.ret.requestId) : r.orderNo = NULL

\* C8: updateRequest on an existing row changes handledRequestCount by +1 when the row
\* goes from pending to handled, by -1 when it goes from handled to pending, by 0 when
\* the handled state stays; it never changes totalRequestCount.
C8_UpdateAdjustsHandledCount ==
    \A request \in IdRequests, forefront \in BOOLEAN :
        LET prior == RowOf(requests, IdOf(request))
            out == updateRequest(DB, request, forefront, now)
            wasHandled == \E r \in prior : r.orderNo = NULL
            isHandled == request.handledAt # UNDEFINED
        IN  prior # {} =>
            /\ TheQueue(out.db.queues).handledRequestCount - TheQueue(queues).handledRequestCount
                   = CASE ~ wasHandled /\ isHandled -> 1
                       [] wasHandled /\ ~ isHandled -> -1
                       [] OTHER                     -> 0
            /\ TheQueue(out.db.queues).totalRequestCount = TheQueue(queues).totalRequestCount

\* an updateRequest without handledAt found its request handled: no request is handled
\* any more
C8_Witness ==
    /\ lastOp.op = "updateRequest"
    /\ lastOp.err = NoError
    /\ lastOp.args[1].handledAt = UNDEFINED
    /\ lastOp.ret.wasAlreadyHandled
    /\ TheQueue(queues).handledRequestCount = 0
    /\ TheQueue(queues).totalRequestCount = 2

\* C9: updateRequest(r) on a queue with no row for r's id behaves as addRequest(r): the
\* rows, the counters and the returned info (wasAlreadyPresent = false,
\* wasAlreadyHandled = false) are those addRequest gives in the same state.  The
\* transactions are compared on the same model, the client calls on the same request
\* (addRequest takes it without its id).
C9_UpdateOfAbsentIsAdd ==
    \A request \in IdRequests, forefront \in BOOLEAN :
        RowOf(requests, IdOf(request)) = {} =>
        LET model == _createRequestModel(request, forefront, now).model
            upd == updateRequest(DB, request, forefront, now)
            add == addRequest(DB, [request EXCEPT !.id = UNDEFINED], forefront, now)
        IN  /\ updateRequestTx(DB, model, now) = addRequestTx(DB, model, now)
            /\ upd = add
            /\ upd.err = NoError
            /\ ~ upd.ret.wasAlreadyPresent
            /\ ~ upd.ret.wasAlreadyHandled
            /\ Cardinality(upd.db.requests) = Cardinality(requests) + 1
            /\ TheQueue(upd.db.queues).totalRequestCount
                   = TheQueue(queues).totalRequestCount + 1

\* an updateRequest did not find its request and inserted it
C9_Witness ==
    /\ lastOp.op = "updateRequest"
    /\ lastOp.err = NoError
    /\ ~ lastOp.ret.wasAlreadyPresent
    /\ RowOf(requests, lastOp.ret.requestId) # {}

\* C10: after addRequest(r), updateRequest(r2) with the same uniqueKey leaves the row
\* holding r2's values (url, method, retryCount, json, and the orderNo computed from
\* r2's handledAt and the forefront option); its id is still the one derived from the
\* uniqueKey and the number of rows is as before.
C10_UpdateOverwritesRow ==
    \A r2 \in IdRequests, forefront \in BOOLEAN :
        LET out == updateRequest(DB, r2, forefront, now)
            after == RowOf(out.db.requests, IdOf(r2))
        IN  RowOf(requests, IdOf(r2)) # {} =>
            /\ Cardinality(after) = 1
            /\ \A row \in after :
                   /\ row.url = r2.url
                   /\ row.method = r2.method
                   /\ row.retryCount = r2.retryCount
                   /\ row.json = JsonStringify(r2)
                   /\ row.orderNo = IF r2.handledAt # UNDEFINED THEN NULL
                                    ELSE Num(IF forefront THEN -now ELSE now)
                   /\ row.uniqueKey = r2.uniqueKey
                   /\ row.id = uniqueKeyToRequestId(row.uniqueKey.v)
            /\ Cardinality(out.db.requests) = Cardinality(requests)

\* an updateRequest found its request; the row now holds the values of the update,
\* which a reader gets back
C10_Witness ==
    /\ lastOp.op = "updateRequest"
    /\ lastOp.err = NoError
    /\ lastOp.ret.wasAlreadyPresent
    /\ Cardinality(requests) = 1
    /\ \E row \in RowOf(requests, lastOp.ret.requestId) :
           /\ row.json = JsonStringify(lastOp.args[1])
           /\ row.method = Str("POST")
           /\ getRequest(DB, row.id, now).ret = lastOp.args[1]

\* the ids of the items listHead returns, in the order it returns them
ListedIds(db, limit, t) ==
    LET items == listHead(db, limit, t).ret.items
    IN  [i \in 1..Len(items) |-> items[i].id.v]

\* the elements of a sequence
Range(seq) ==
    { seq[i] : i \in 1..Len(seq) }

\* the limits a head listing is asked with: those of the model and the default, 100
HeadLimits == Limits \cup {100}

\* the ids of the handled requests
HandledIds(rows) ==
    { r.id : r \in { x \in rows : x.orderNo = NULL } }

\* C11: a handled request (orderNo NULL) is never returned by listHead nor by
\* listAndLockHead, in any reachable state and whatever the limit.
C11_HandledNeverListed ==
    \A limit \in HeadLimits :
        /\ Range(ListedIds(DB, limit, now)) \cap HandledIds(requests) = {}
        /\ \A lockSecs \in LockSecsValues :
               WouldLock(DB, limit, lockSecs, now) \cap HandledIds(requests) = {}

\* one request is handled and one is pending and unlocked: the listings of limit 2
\* return the pending one alone
C11_Witness ==
    /\ Cardinality(HandledIds(requests)) = 1
    /\ Cardinality(requests) = 2
    /\ Len(ListedIds(DB, 2, now)) = 1
    /\ \E lockSecs \in LockSecsValues : Cardinality(WouldLock(DB, 2, lockSecs, now)) = 1

\* the rows that are not handled
PendingRows(rows) ==
    { r \in rows : r.queueId = QueueId /\ r.orderNo # NULL }

\* the orderNo stored for a pending request
OrderNoOf(rows, id) ==
    (CHOOSE r \in PendingRows(rows) : r.id = id).orderNo.v

Min(a, b) ==
    IF a <= b THEN a ELSE b

Before(ids, a, b) ==
    \E i, j \in 1..Len(ids) : i < j /\ ids[i] = a /\ ids[j] = b

\* the requests addRequest takes that are not handled
PendingNewRequests ==
    { r \in NewRequests : r.handledAt = UNDEFINED }

\* the head listing after addRequest(r, f1) at time now and addRequest(s, f2) at time t2
HeadAfterTwoAdds(r, f1, s, f2, t2) ==
    LET first == addRequest(DB, r, f1, now)
        second == addRequest(first.db, s, f2, t2)
    IN  ListedIds(second.db, 100, t2)

\* the times of a second call: the same millisecond, or a second later
SecondTimes == {now, now + MsPerSec}

\* C13 (as the specification states it): a request added with forefront = true is
\* listed before every request added at the tail; of two forefront requests the one
\* added later comes first; tail requests come in insertion order; this for any adds,
\* those made in the same clock millisecond included.
C13_HeadOrderFollowsInsertion ==
    \A r, s \in PendingNewRequests, f1, f2 \in BOOLEAN, t2 \in SecondTimes :
        (requests = {} /\ r.uniqueKey # s.uniqueKey) =>
        LET ids == HeadAfterTwoAdds(r, f1, s, f2, t2)
        IN  IF f2 THEN Before(ids, IdOf(s), IdOf(r)) ELSE Before(ids, IdOf(r), IdOf(s))

\* C13 (what the code keeps): the same, except that two forefront requests added in
\* the same millisecond get the same orderNo and are listed in insertion order.
C13_HeadOrderUnlessSameMillisecond ==
    \A r, s \in PendingNewRequests, f1, f2 \in BOOLEAN, t2 \in SecondTimes :
        (requests = {} /\ r.uniqueKey # s.uniqueKey) =>
        LET ids == HeadAfterTwoAdds(r, f1, s, f2, t2)
        IN  IF f2 /\ ~ (f1 /\ t2 = now)
            THEN Before(ids, IdOf(s), IdOf(r))
            ELSE Before(ids, IdOf(r), IdOf(s))

\* the last addRequest inserted a forefront request a second after another forefront
\* request: the new one is listed first
C13_Witness ==
    /\ lastOp.op = "addRequest"
    /\ lastOp.err = NoError
    /\ ~ lastOp.ret.wasAlreadyPresent
    /\ \E old, new \in PendingRows(requests) :
           /\ new.id = lastOp.ret.requestId
           /\ old.rowid < new.rowid
           /\ new.orderNo.v = -now
           /\ old.orderNo.v = -(now - MsPerSec)
           /\ ListedIds(DB, 100, now) = <<new.id, old.id>>

\* C14 (as the specification states it): after listAndLockHead has locked a request,
\* listHead does not return it until its lock expires or is released.
C14_ListHeadHidesLocked ==
    (grant.state = "held" /\ now < grant.until)
    => \A limit \in HeadLimits : WatchedId \notin Range(ListedIds(DB, limit, now))

\* the ids of the requests a listAndLockHead call returns, in the order it returns them
LockedIds(db, limit, lockSecs, t) ==
    LET jsons == listAndLockHeadTx(db, QueueId, limit, lockSecs, t).ret
    IN  [i \in 1..Len(jsons) |-> JsonParse(jsons[i]).id.v]

\* C15 (as the specification states it): when the locks taken by one listAndLockHead
\* call have expired, the requests it locked appear in the head listings (listHead and
\* listAndLockHead) in the relative order they had before they were locked, forefront
\* and tail requests alike.
C15_OrderKeptAfterExpiry ==
    \A limit \in Limits, lockSecs \in LockSecsValues :
        LET locked == LockedIds(DB, limit, lockSecs, now)
            after == listAndLockHeadTx(DB, QueueId, limit, lockSecs, now).db
            expiry == now + lockSecs * MsPerSec
        IN  \A i, j \in 1..Len(locked) :
                i < j =>
                /\ Before(ListedIds(after, 100, expiry), locked[i], locked[j])
                /\ Before(LockedIds(after, 100, lockSecs, expiry), locked[i], locked[j])

\* the clock times looked at around an unlock time
TimesAround(unlock) ==
    { t \in {now, unlock - MsPerSec, unlock - 1, unlock, unlock + 1, unlock + MsPerSec} : t >= now }

\* C16: prolongRequestLock extends a held lock: after listAndLockHead at time t with
\* lockSecs = L and then prolongRequestLock(id, {lockSecs: P}), the request is not
\* returned by listAndLockHead at any time earlier than t + (L+P)*1000, it is returned
\* at any later time, and the Date prolongRequestLock returns is that unlock time.
C16_ProlongExtendsLock ==
    grant.state = "held" =>
    \A P \in LockSecsValues, forefront \in BOOLEAN :
        LET out == prolongRequestLockTx(DB, WatchedId, P, forefront, now)
            unlock == grant.until + P * MsPerSec
        IN  /\ out.err = NoError
            /\ out.ret = unlock
            /\ \A t \in TimesAround(unlock), lockSecs \in LockSecsValues :
                   (WatchedId \in WouldLock(out.db, 100, lockSecs, t)) = (t >= unlock)

\* the lock of the request was prolonged by a second while it ran (nothing was written
\* since the clock advanced); the time of its first expiry has come and listAndLockHead
\* does not return the request
C16_Witness ==
    /\ grant.state = "prolonged"
    /\ now >= grant.until
    /\ TheQueue(queues).modifiedAt < grant.until
    /\ \E r \in PendingRows(requests) :
           r.id = WatchedId /\ Abs(r.orderNo.v) = grant.until + MsPerSec
    /\ \A lockSecs \in LockSecsValues : WatchedId \notin WouldLock(DB, 100, lockSecs, now)

\* the ids of the requests that are locked at time t
LockedAt(rows, t) ==
    { r.id : r \in { x \in PendingRows(rows) : Abs(x.orderNo.v) > t } }

\* C17: deleteRequestLock(id) on a currently locked request makes it available at
\* once: the next listAndLockHead of sufficient limit returns it, even when the clock
\* has not advanced since the release.
C17_ReleaseMakesAvailable ==
    \A id \in LockedAt(requests, now), forefront \in BOOLEAN :
        LET out == deleteRequestLockTx(DB, id, forefront, now)
        IN  /\ out.err = NoError
            /\ \A t \in {now, now + 1}, lockSecs \in LockSecsValues :
                   id \in WouldLock(out.db, Cardinality(requests), lockSecs, t)

\* the lock of the request was released before its expiry, and a listAndLockHead made
\* now returns the request
C17_Witness ==
    /\ grant.state = "released"
    /\ now < grant.until
    /\ \A lockSecs \in LockSecsValues :
           WatchedId \in WouldLock(DB, Cardinality(requests), lockSecs, now)

\* the errors of the two lock operations
NotLockedError(id) ==
    "Request with ID " \o id \o " was already handled, doesn't exist, or is not locked"

NotProlongableError(id) ==
    "Request with ID " \o id \o " was already handled or doesn't exist"

\* C18: deleteRequestLock(id) fails with the not-locked-or-missing error, and changes
\* no row, whenever the request is absent, is handled, or is pending but not locked
\* now (|orderNo| <= now: never locked, or its lock has expired).
C18_ReleaseFailsUnlessLocked ==
    \A id \in RequestIds, forefront \in BOOLEAN :
        id \notin LockedAt(requests, now) =>
        LET out == deleteRequestLockTx(DB, id, forefront, now)
        IN  /\ out.err = NotLockedError(id)
            /\ out.db = DB

\* deleteRequestLock failed for one request; another request is handled and this one
\* is pending and not locked
C18_Witness ==
    /\ lastOp.op = "deleteRequestLock"
    /\ lastOp.err = NotLockedError(lastOp.args[1])
    /\ HandledIds(requests) # {}
    /\ \E r \in PendingRows(requests) : r.id = lastOp.args[1] /\ Abs(r.orderNo.v) <= now

\* C19 (as the specification states it): prolongRequestLock(id) fails with the
\* not-locked-or-missing error, and leaves orderNo as it was, whenever the request is
\* absent, is handled, or is not locked now (never locked, or its lock has expired).
C19_ProlongFailsUnlessLocked ==
    \A id \in RequestIds, lockSecs \in LockSecsValues, forefront \in BOOLEAN :
        id \notin LockedAt(requests, now) =>
        LET out == prolongRequestLockTx(DB, id, lockSecs, forefront, now)
        IN  /\ out.err # NoError
            /\ out.db.requests = requests

\* C19 (what the code keeps): prolongRequestLock(id) fails, and changes nothing, when
\* the request is absent or handled.
C19_ProlongFailsUnlessPending ==
    \A id \in RequestIds, lockSecs \in LockSecsValues, forefront \in BOOLEAN :
        id \notin { r.id : r \in PendingRows(requests) } =>
        LET out == prolongRequestLockTx(DB, id, lockSecs, forefront, now)
        IN  /\ out.err = NotProlongableError(id)
            /\ out.db = DB

\* prolongRequestLock failed for a request that is handled
C19_Witness ==
    /\ lastOp.op = "prolongRequestLock"
    /\ lastOp.err = NotProlongableError(lastOp.args[1])
    /\ lastOp.args[1] \in HandledIds(requests)

\* the requests addRequest and updateRequest accept: what the client checks before it
\* makes the emulator is in order
AcceptedAdds ==
    { r \in AddInputs : r.id = UNDEFINED /\ RequestShapeOk(r) }

AcceptedUpdates ==
    { r \in UpdateInputs : /\ r.id.t = "string"
                           /\ RequestShapeOk(r)
                           /\ _createRequestModel(r, FALSE, now).err = NoError }

ModelsOf(reqs, forefront) ==
    [i \in 1..Len(reqs) |-> _createRequestModel(reqs[i], forefront, now).model]

\* the call failed with `err` and left the database as it was
FailsWith(out, err) ==
    out.err = err /\ out.db = DB

\* each of the six operations, whatever it is given, fails with `err` and stores nothing
EveryOperationFailsWith(err) ==
    /\ \A request \in AcceptedAdds, forefront \in BOOLEAN :
           FailsWith(addRequest(DB, request, forefront, now), err)
    /\ \A reqs \in Batches, forefront \in BOOLEAN :
           FailsWith(OnEmulator(DB, batchAddRequestsTx(DB, ModelsOf(reqs, forefront), now)), err)
    /\ \A id \in RequestIds :
           FailsWith(getRequest(DB, id, now), err)
    /\ \A request \in AcceptedUpdates, forefront \in BOOLEAN :
           FailsWith(updateRequest(DB, request, forefront, now), err)
    /\ \A limit \in Limits :
           FailsWith(listHead(DB, limit, now), err)
    /\ \A limit \in Limits, lockSecs \in LockSecsValues :
           FailsWith(OnEmulator(DB, listAndLockHeadTx(DB, QueueId, limit, lockSecs, now)), err)

\* the queue does not exist: its directory was never made, or delete() removed it, or
\* its database holds no queue row
QueueMissing ==
    storage \notin {"dir", "moved"} \/ queues = {}

\* C20 (as the specification states it): addRequest, batchAddRequests, getRequest,
\* updateRequest, listHead and listAndLockHead on a queue that does not exist (never
\* created, already deleted, or with no queue row) each fail with 'Request queue with
\* id: <name> does not exist.', <name> being the queue's name, and store nothing.
C20_AbsentQueueFails ==
    QueueMissing =>
        EveryOperationFailsWith(QueueDirDoesNotExist(QueueName))

\* C20 (what the code keeps): while the queue's directory has never been made, each of
\* the six operations fails with that error, carrying the queue's name, and stores
\* nothing.
C20_MissingDirectoryFails ==
    storage = "none" =>
        EveryOperationFailsWith(QueueDirDoesNotExist(QueueName))

\* getRequest was called before the directory of the queue was made, and failed
C20_Witness ==
    /\ storage = "none"
    /\ lastOp.op = "getRequest"
    /\ lastOp.err = QueueDirDoesNotExist(QueueName)

\* C21 (as the specification states it): get() on a queue that does not exist returns
\* undefined without failing, and creates nothing, so a later get() gives the same.
C21_GetOfMissingIsUndefined ==
    QueueMissing =>
        LET out == get(DB, now)
        IN  out.err = NoError /\ out.ret = UNDEFINED /\ out.db = DB

\* C21 (what the code keeps): while the directory of the queue has never been made,
\* get() returns undefined without failing and creates nothing.
C21_GetWithoutDirectoryIsUndefined ==
    storage = "none" =>
        LET out == get(DB, now)
        IN  out.err = NoError /\ out.ret = UNDEFINED /\ out.db = DB

\* get() was called before the directory of the queue was made and gave undefined
C21_Witness ==
    /\ storage = "none"
    /\ lastOp.op = "get"
    /\ lastOp.err = NoError
    /\ lastOp.ret = UNDEFINED
    /\ queues = {}

\* the requests addRequest must reject: an id is given, or url or uniqueKey is missing
RejectedAdds ==
    { r \in AddInputs : r.id # UNDEFINED \/ r.url = UNDEFINED \/ r.uniqueKey = UNDEFINED }

\* the requests updateRequest must reject: no id, no url, no uniqueKey, or an id that is
\* not the one derived from the uniqueKey
RejectedUpdates ==
    { r \in UpdateInputs : \/ r.id = UNDEFINED \/ r.url = UNDEFINED \/ r.uniqueKey = UNDEFINED
                           \/ r.id # Str(uniqueKeyToRequestId(r.uniqueKey.v)) }

\* the batches batchAddRequests must reject: one or two requests, one of them rejected
RejectedBatches ==
    { b \in UNION { [1..n -> BatchItems \cup RejectedAdds] : n \in {1, 2} } :
          \E i \in 1..Len(b) : b[i] \in RejectedAdds }

\* C22: addRequest and batchAddRequests reject a request that carries an id or lacks
\* url or uniqueKey, updateRequest rejects a request without id, url or uniqueKey or
\* whose id is not the one derived from its uniqueKey; every rejected call leaves the
\* rows, the counters and modifiedAt of the queue as they were.
C22_RejectedCallsChangeNothing ==
    /\ \A request \in RejectedAdds, forefront \in BOOLEAN :
           FailsWith(addRequest(DB, request, forefront, now), ArgumentError)
    /\ \A reqs \in RejectedBatches, forefront \in BOOLEAN :
           FailsWith(batchAddRequests(DB, reqs, forefront, now), ArgumentError)
    /\ \A request \in RejectedUpdates, forefront \in BOOLEAN :
           LET out == updateRequest(DB, request, forefront, now)
           IN  /\ out.err \in {ArgumentError, "Request ID does not match its uniqueKey."}
               /\ out.db = DB

\* updateRequest has just rejected a request whose id does not match its uniqueKey,
\* while a row with that uniqueKey is stored
C22_Witness ==
    /\ lastOp.op = "updateRequest"
    /\ lastOp.err = "Request ID does not match its uniqueKey."
    /\ \E r \in requests : r.uniqueKey = lastOp.args[1].uniqueKey

RECURSIVE AfterAdds(_, _, _, _)
\* the database after addRequest of the first k requests of reqs, one call after another
AfterAdds(db, reqs, forefront, k) ==
    IF k = 0 THEN db
    ELSE addRequest(AfterAdds(db, reqs, forefront, k - 1), reqs[k], forefront, now).db

\* C23: batchAddRequests(reqs) returns one processedRequests entry per request, in the
\* order given, each with the uniqueKey and requestId of its request and the flags
\* addRequest would return at that item's turn (a uniqueKey repeated in the batch is
\* wasAlreadyPresent the second time); unprocessedRequests is empty.
C23_BatchReportsEachItem ==
    \A reqs \in Batches \cup SingleBatches, forefront \in BOOLEAN :
        LET out == batchAddRequests(DB, reqs, forefront, now)
            processed == out.ret.processedRequests
        IN  /\ out.err = NoError
            /\ out.ret.unprocessedRequests = << >>
            /\ Len(processed) = Len(reqs)
            /\ \A i \in 1..Len(reqs) :
                   LET single == addRequest(AfterAdds(DB, reqs, forefront, i - 1),
                                            reqs[i], forefront, now).ret
                   IN  /\ processed[i].uniqueKey = reqs[i].uniqueKey
                       /\ processed[i].requestId = IdOf(reqs[i])
                       /\ processed[i].requestId = single.requestId
                       /\ processed[i].wasAlreadyPresent = single.wasAlreadyPresent
                       /\ processed[i].wasAlreadyHandled = single.wasAlreadyHandled

\* a batch of twice the same uniqueKey was added to a queue that did not hold it: the
\* first entry says new, the second says present
C23_Witness ==
    /\ lastOp.op = "batchAddRequests"
    /\ lastOp.err = NoError
    /\ Len(lastOp.args[1]) = 2
    /\ lastOp.args[1][1].uniqueKey = lastOp.args[1][2].uniqueKey
    /\ ~ lastOp.ret.processedRequests[1].wasAlreadyPresent
    /\ lastOp.ret.processedRequests[2].wasAlreadyPresent
    /\ Cardinality(requests) = 2

\* the rows and the two counters of every queue
StoredIn(db) ==
    [rows |-> db.requests,
     counts |-> { <<q.id, q.totalRequestCount, q.handledRequestCount>> : q \in db.queues }]

\* C24: batchAddRequests is all-or-nothing: a batch that fails, as one does when the
\* queue row is missing, stores none of its requests and leaves totalRequestCount and
\* handledRequestCount as they were, also when items before the failing one had been
\* inserted.
C24_FailedBatchStoresNothing ==
    /\ \A reqs \in Batches, forefront \in BOOLEAN :
           LET out == batchAddRequests(DB, reqs, forefront, now)
           IN  /\ QueueMissing => out.err # NoError
               /\ out.err # NoError => StoredIn(out.db) = StoredIn(DB)
    /\ storage = "dir" =>
           \A models \in ForeignBatches(now) :
               LET out == batchAddRequestsTx(DB, models, now)
               IN  /\ out.err \in {QueueDoesNotExist(OtherQueueId), QueueDoesNotExist(QueueId)}
                   /\ queues # {} => out.err = QueueDoesNotExist(OtherQueueId)
                   /\ StoredIn(out.db) = StoredIn(DB)

\* a batch has just failed on its second model; its first model names the queue that
\* is there and a request that is not stored, so it had been inserted
C24_Witness ==
    /\ lastOp.op = "emulator.batchAddRequests"
    /\ lastOp.err = QueueDoesNotExist(OtherQueueId)
    /\ Len(lastOp.args[1]) = 2
    /\ lastOp.args[1][1].queueId = QueueId
    /\ RowOf(requests, lastOp.args[1][1].id) = {}
    /\ requests # {}
    /\ \E q \in queues : q.id = QueueId /\ q.totalRequestCount = Cardinality(requests)

\* C25: for every queue, in every reachable state and across every operation (request
\* mutations, reads, lock operations, rename by update({name})), modifiedAt never
\* decreases and accessedAt >= modifiedAt.
C25_TimestampsOrdered ==
    /\ [](\A q \in queues : q.accessedAt >= q.modifiedAt /\ q.modifiedAt >= q.createdAt)
    /\ [][\A q \in queues : \A p \in queues' : p.id = q.id => p.modifiedAt >= q.modifiedAt]_vars

\* the queue was renamed, holds a request written at one time and was read at a later time
C25_Witness ==
    /\ storage = "moved"
    /\ requests # {}
    /\ \E q \in queues : q.id = QueueId /\ q.accessedAt > q.modifiedAt

\* a database but for the accessedAt of its queues
ButAccessedAt(db) ==
    [rows |-> db.requests,
     queues |-> { [q EXCEPT !.accessedAt = 0] : q \in db.queues }]

\* C26: the reads get, getRequest and listHead change nothing but accessedAt:
\* modifiedAt, totalRequestCount, handledRequestCount, pendingRequestCount and every
\* request row are the same after the call as before.
C26_ReadsChangeOnlyAccessedAt ==
    /\ ButAccessedAt(get(DB, now).db) = ButAccessedAt(DB)
    /\ \A id \in RequestIds :
           ButAccessedAt(getRequest(DB, id, now).db) = ButAccessedAt(DB)
    /\ \A limit \in HeadLimits :
           ButAccessedAt(listHead(DB, limit, now).db) = ButAccessedAt(DB)
    /\ \A q \in get(DB, now).db.queues :
           q.id = QueueId /\ _getEmulator = NoError => q.accessedAt = now

\* getRequest has just returned a stored request, at a time after the last modification
\* of the queue
C26_Witness ==
    /\ lastOp.op = "getRequest"
    /\ lastOp.err = NoError
    /\ lastOp.ret # UNDEFINED
    /\ \E q \in queues : /\ q.id = QueueId
                          /\ q.accessedAt = now
                          /\ q.modifiedAt < now
                          /\ q.totalRequestCount = Cardinality(requests)

\* the queue of the requests carries the current time in modifiedAt and accessedAt
Bumped(db) ==
    \A q \in db.queues : q.id = QueueId => q.modifiedAt = now /\ q.accessedAt = now

ModifiedAtOf(db) ==
    { q.modifiedAt : q \in selectById(db, QueueId) }

\* C27: every insert, update or delete of a request row, the orderNo rewrites of
\* listAndLockHead, prolongRequestLock and deleteRequestLock included, sets modifiedAt
\* and accessedAt of the queue to the current time; an addRequest that finds the request
\* present leaves modifiedAt as it was.
C27_RowWritesBumpTimestamps ==
    /\ \A request \in NewRequests, forefront \in BOOLEAN :
           LET out == addRequest(DB, request, forefront, now)
           IN  /\ out.err = NoError
               /\ IF RowOf(requests, IdOf(request)) = {}
                  THEN out.db.requests # requests /\ Bumped(out.db)
                  ELSE ModifiedAtOf(out.db) = ModifiedAtOf(DB)
    /\ \A reqs \in Batches, forefront \in BOOLEAN :
           LET out == batchAddRequests(DB, reqs, forefront, now)
           IN  IF out.db.requests # requests THEN Bumped(out.db)
               ELSE ModifiedAtOf(out.db) = ModifiedAtOf(DB)
    /\ \A request \in IdRequests, forefront \in BOOLEAN :
           Bumped(updateRequest(DB, request, forefront, now).db)
    /\ \A limit \in Limits, lockSecs \in LockSecsValues :
           LET out == listAndLockHeadTx(DB, QueueId, limit, lockSecs, now)
           IN  out.ret # << >> => out.db.requests # requests /\ Bumped(out.db)
    /\ \A id \in RequestIds, lockSecs \in LockSecsValues, forefront \in BOOLEAN :
           LET out == prolongRequestLockTx(DB, id, lockSecs, forefront, now)
           IN  out.err = NoError => Bumped(out.db)
    /\ \A id \in RequestIds, forefront \in BOOLEAN :
           LET out == deleteRequestLockTx(DB, id, forefront, now)
           IN  out.err = NoError => Bumped(out.db)
    /\ \A id \in { r.id : r \in requests } :
           Bumped(deleteRequestByIdStatement(DB, id, now))

\* the one stored request was added at the start and is locked since the clock moved on;
\* the queue carries the time of the lock
C27_Witness ==
    /\ grant.state = "held"
    /\ now > StartTime
    /\ grant.until = now + MsPerSec
    /\ Cardinality(requests) = 1
    /\ TheQueue(queues).createdAt = StartTime
    /\ TheQueue(queues).modifiedAt = now
    /\ TheQueue(queues).accessedAt = now

\* C28 (as the specification states it): the database of a queue holds exactly one queue
\* row, of id 1, after any sequence of getOrCreate, update({name}), delete and request
\* operations; getOrCreate(name) of an existing queue returns it, with id = name, and
\* creates no row, and of a new name creates exactly one.
C28_ExactlyOneQueueRow ==
    /\ queues # {} => Cardinality(queues) = 1 /\ \A q \in queues : q.id = QueueId
    /\ storage \in {"dir", "moved"} =>
           LET out == selectOrInsertByNameTx(DB, ClientName, now)
           IN  /\ out.ret.name = ClientName
               /\ Cardinality(out.db.queues) = 1
               /\ queues # {} => out.db = DB

\* C28 (what the code keeps): no two queue rows have the same name or the same id, the
\* first row has id 1, and getOrCreate(name) of a name that has a row returns that row
\* and writes nothing, of a name that has none adds exactly one row, with that name.
C28_OneQueueRowPerName ==
    /\ \A q \in queues : \A p \in queues : (q.name = p.name \/ q.id = p.id) => q = p
    /\ queues # {} => \E q \in queues : q.id = QueueId
    /\ \A name \in {QueueName, NewName} :
           LET out == selectOrInsertByNameTx(DB, name, now)
           IN  /\ out.err = NoError
               /\ out.ret.name = name
               /\ out.ret \in out.db.queues
               /\ IF selectByName(DB, name) # {}
                  THEN out.db = DB
                  ELSE /\ out.db.requests = requests
                       /\ queues \subseteq out.db.queues
                       /\ Cardinality(out.db.queues) = Cardinality(queues) + 1

\* getOrCreate has just returned the queue that was there, with its requests
C28_Witness ==
    /\ lastOp.op = "getOrCreate"
    /\ lastOp.err = NoError
    /\ lastOp.ret.id = QueueName
    /\ lastOp.ret.createdAt < now
    /\ lastOp.ret.totalRequestCount > 0
    /\ Cardinality(queues) = 1

\* the batches whose requests pass the argument check and get a model
ValidBatches ==
    { reqs \in Batches : \A forefront \in BOOLEAN :
          batchAddRequests(DB, reqs, forefront, now).err \notin BeforeEmulator }

\* C29 (as the specification states it): after delete() of the queue, getOrCreate of the
\* same name in the same process yields a fresh empty queue, without request rows and with
\* both counts 0, and batchAddRequests and listAndLockHead on it succeed.
C29_FreshQueueAfterDelete ==
    storage = "closed" =>
        LET created == OnEmulator(DB, selectOrInsertByNameTx(DB, ClientName, now))
        IN  /\ created.err = NoError
            /\ created.ret.name = QueueName
            /\ created.ret.totalRequestCount = 0
            /\ created.ret.handledRequestCount = 0
            /\ created.db.requests = {}
            /\ \A reqs \in ValidBatches, forefront \in BOOLEAN :
                   batchAddRequests(created.db, reqs, forefront, now).err = NoError
            /\ \A limit \in Limits, lockSecs \in LockSecsValues :
                   OnEmulator(created.db,
                              listAndLockHeadTx(created.db, QueueId, limit, lockSecs, now)).err
                       = NoError

\* C29 (what the code does): after delete() of the queue, getOrCreate of the same name in
\* the same process fails on the closed connection and creates no row, and so do
\* batchAddRequests and listAndLockHead.
C29_DeletedQueueStaysClosed ==
    storage = "closed" =>
        /\ OnEmulator(DB, selectOrInsertByNameTx(DB, ClientName, now))
               = Rejected(DB, ConnectionNotOpen)
        /\ \A reqs \in ValidBatches, forefront \in BOOLEAN :
               batchAddRequests(DB, reqs, forefront, now) = Rejected(DB, ConnectionNotOpen)
        /\ \A limit \in Limits, lockSecs \in LockSecsValues :
               OnEmulator(DB, listAndLockHeadTx(DB, QueueId, limit, lockSecs, now))
                   = Rejected(DB, ConnectionNotOpen)

\* getOrCreate has just failed on the queue that delete() removed
C29_Witness ==
    /\ storage = "closed"
    /\ queues = {}
    /\ lastOp.op = "getOrCreate"
    /\ lastOp.args = <<QueueName>>
    /\ lastOp.err = ConnectionNotOpen

\* the connection is one that was closed
IsClosed(connection) ==
    connection # NoConnection /\ ~ connection.open

\* C30 (as the specification states it): closeConnection(path) closes the connection and
\* removes it from the cache, so that the next openConnection(path) opens a new one, and
\* a connection that openConnection returns is never a closed one.
C30_ClosedConnectionLeavesCache ==
    \A path \in Paths :
        /\ ~ IsClosed(openConnection(connections, path, TRUE).ret)
        /\ closeConnection(connections, path)[path] = NoConnection
        /\ openConnection(closeConnection(connections, path), path, TRUE).ret.open

\* C30 (what the code does): openConnection(path) returns the connection the cache has
\* for the path, and the same one again when repeated; it opens a new one only for a
\* path the cache does not know.  closeConnection(path) changes nothing for an unknown
\* path, and else closes the connection and leaves it in the cache, so that the next
\* openConnection(path) returns the closed connection: that is the connection of the
\* queue's path after delete() and after update({name}), and every emulator then made
\* for the path fails.
C30_CacheKeepsClosedConnection ==
    /\ \A path \in Paths :
           LET opened == openConnection(connections, path, TRUE)
               closed == closeConnection(opened.cache, path)
           IN  /\ opened.err = NoError
               /\ opened.ret # NoConnection
               /\ opened.cache[path] = opened.ret
               /\ openConnection(opened.cache, path, TRUE) = opened
               /\ \A other \in Paths \ {path} : /\ opened.cache[other] = connections[other]
                                                 /\ closed[other] = connections[other]
               /\ IF connections[path] = NoConnection
                  THEN /\ closeConnection(connections, path) = connections
                       /\ opened.ret.open
                       /\ \A other \in Paths : connections[other].no # opened.ret.no
                       /\ openConnection(connections, path, FALSE).cache = connections
                       /\ openConnection(connections, path, FALSE).err # NoError
                  ELSE /\ opened.ret = connections[path]
                       /\ opened.cache = connections
               /\ closed[path] = [opened.ret EXCEPT !.open = FALSE]
               /\ openConnection(closed, path, TRUE).ret = closed[path]
               /\ openConnection(closed, path, TRUE).cache = closed
    /\ storage = "closed" <=> IsClosed(connections[ClientName])
    /\ storage = "none" => \A path \in Paths : connections[path] = NoConnection
    /\ _getEmulator = ConnectionNotOpen
           <=> IsClosed(openConnection(connections, ClientName, DirExists).ret)

\* each directory had its connection closed, and getOrCreate has just failed on one
C30_Witness ==
    /\ \A path \in Paths : IsClosed(connections[path])
    /\ lastOp.op = "getOrCreate"
    /\ lastOp.err = ConnectionNotOpen

\* the queue is there and a client of its name can use it
QueueUsable ==
    _getEmulator = NoError /\ queues # {}

\* what update({name}) of the queue would give now
Renamed ==
    update(DB, storage, connections, ClientName, OtherName, taken, now)

\* C31 (as the specification states it): update({name: n}), when no directory n exists,
\* makes the queue reachable under n with the same request rows and counters, returns
\* the queue with id = name = n, and the old name no longer exists; when the directory n
\* exists the call fails with 'Request queue name is not unique.'.
C31_RenameGivesNewName ==
    QueueUsable =>
        IF taken THEN Renamed.err = NameNotUnique
        ELSE /\ Renamed.err = NoError
             /\ Renamed.ret.id = OtherName
             /\ Renamed.ret.name = OtherName
             /\ Renamed.db.requests = requests
             /\ \A q \in Renamed.db.queues : \A p \in queues :
                    /\ q.totalRequestCount = p.totalRequestCount
                    /\ q.handledRequestCount = p.handledRequestCount
             /\ RequestQueueEmulator(Renamed.storage, OtherName) = NoError
             /\ RequestQueueEmulator(Renamed.storage, ClientName) # NoError

\* C31 (what the code does): update({name: n}) fails with 'Request queue name is not
\* unique.' when the directory n exists; when it does not, the directory is moved, so
\* that the old name is gone, and the call then throws on the closed connection: nothing
\* is returned and the row keeps its name, its timestamps, its counters and its requests.
\* After the first move the queue can be used under n; after a move back it cannot be
\* used under any name.
C31_RenameMovesThenThrows ==
    QueueUsable =>
        /\ Renamed.db = DB
        /\ Renamed.ret = UNDEFINED
        /\ IF taken THEN Renamed.err = NameNotUnique
           ELSE /\ Renamed.err = ConnectionNotOpen
                /\ RequestQueueEmulator(Renamed.storage, ClientName) # NoError
                /\ storage = "dir" =>
                       /\ Renamed.storage = "moved"
                       /\ RequestQueueEmulator(Renamed.storage, OtherName) = NoError
                /\ storage = "moved" =>
                       /\ Renamed.storage = "closed"
                       /\ RequestQueueEmulator(Renamed.storage, OtherName) = ConnectionNotOpen

\* update({name: 'second'}) has just moved a queue with requests and thrown
C31_Witness ==
    /\ lastOp.op = "update"
    /\ lastOp.args = <<NewName>>
    /\ lastOp.err = ConnectionNotOpen
    /\ lastOp.ret = UNDEFINED
    /\ storage = "moved"
    /\ ~ taken
    /\ requests # {}
    /\ \A q \in queues : q.name = QueueName

\* update({name}) has just failed because the new name has a directory
RenameJustRefused ==
    lastOp.op = "update" /\ lastOp.err = NameNotUnique

\* C38 (as the specification states it): after update({name: n}) failed because the
\* directory n exists, the queue still exists under its old name, with its rows and
\* counters, and the operations on it through the old name succeed.
C38_RefusedRenameKeepsQueueUsable ==
    RenameJustRefused =>
        /\ QueueUsable
        /\ get(DB, now).err = NoError
        /\ \A id \in RequestIds : getRequest(DB, id, now).err = NoError
        /\ \A limit \in Limits : listHead(DB, limit, now).err = NoError
        /\ \A request \in AcceptedAdds, forefront \in BOOLEAN :
               addRequest(DB, request, forefront, now).err = NoError
        /\ \A limit \in Limits, lockSecs \in LockSecsValues :
               OnEmulator(DB, listAndLockHeadTx(DB, QueueId, limit, lockSecs, now)).err = NoError

\* C38 (what the code does): update({name: n}) that fails because the directory n exists
\* leaves the rows and the counters as they were, in the old directory, but has closed
\* the connection before it tried to move: every later operation through the old name
\* fails on the closed connection and stores nothing.
C38_RefusedRenameClosesQueue ==
    /\ QueueUsable /\ taken =>
           /\ Renamed.err = NameNotUnique
           /\ Renamed.db = DB
           /\ Renamed.storage = "closed"
           /\ IsClosed(Renamed.connections[ClientName])
    /\ RenameJustRefused =>
           /\ taken
           /\ queues # {}
           /\ IsClosed(connections[ClientName])
           /\ _getEmulator = ConnectionNotOpen
           /\ get(DB, now).err = ConnectionNotOpen
           /\ EveryOperationFailsWith(ConnectionNotOpen)

\* update({name}) has just been refused on a queue that holds a request
C38_Witness ==
    /\ RenameJustRefused
    /\ lastOp.args = <<NewName>>
    /\ storage = "closed"
    /\ requests # {}
    /\ \A q \in queues : q.name = QueueName /\ q.totalRequestCount > 0

\* the paths purge() would leave now
Purged ==
    purge(storageDir, files)

\* the paths that are not entries of one of the three default containers
OutsideDefaults(fs) ==
    fs \ { join(folder, name) : folder \in DefaultFolders(storageDir), name \in EntryNames }

\* C32 (as the specification states it): purge() leaves the default dataset directory
\* and the default request queue directory empty and leaves in the default key-value
\* store exactly the entries whose basename matches INPUT; no other container is touched.
C32_PurgeKeepsOnlyInputOfKeyValueStore ==
    /\ readdir(Purged, join(datasetDir(storageDir), DefaultId)) = {}
    /\ readdir(Purged, join(requestQueueDir(storageDir), DefaultId)) = {}
    /\ readdir(Purged, join(keyValueStoreDir(storageDir), DefaultId))
           = { name \in readdir(files, join(keyValueStoreDir(storageDir), DefaultId)) :
                   RegExpTest(INPUT, name) }
    /\ OutsideDefaults(Purged) = OutsideDefaults(files)

\* C32 (what the code does): purge() touches nothing but the entries of the three default
\* containers, creates nothing, and leaves in each of the three, the dataset and the
\* request queue included, exactly the entries whose path matches INPUT: those whose
\* name matches when the storage directory's path does not, and all of them when it does.
C32_PurgeKeepsPathsWithInput ==
    /\ Purged \subseteq files
    /\ OutsideDefaults(Purged) = OutsideDefaults(files)
    /\ \A folder \in DefaultFolders(storageDir) :
           /\ readdir(Purged, folder)
                  = { name \in readdir(files, folder) : RegExpTest(INPUT, join(folder, name)) }
           /\ IF RegExpTest(INPUT, storageDir)
              THEN readdir(Purged, folder) = readdir(files, folder)
              ELSE readdir(Purged, folder)
                       = { name \in readdir(files, folder) : RegExpTest(INPUT, name) }
           /\ folder \notin files => readdir(Purged, folder) = {}
    /\ purge(storageDir, Purged) = Purged

\* purge() has just emptied the default dataset and request queue and left INPUT.json,
\* alone, in the default key-value store, as in the test
C32_Witness ==
    /\ lastOp.op = "purge"
    /\ \A folder \in DefaultFolders(storageDir) :
           join(folder, "000000001.json") \in lastOp.args[1]
    /\ readdir(files, join(datasetDir(storageDir), DefaultId)) = {}
    /\ readdir(files, join(requestQueueDir(storageDir), DefaultId)) = {}
    /\ readdir(files, join(keyValueStoreDir(storageDir), DefaultId)) = {"INPUT.json"}

\* the payloads a caller may attach: none, null, an object with a null inside
UserDataValues ==
    {UNDEFINED, NULL, Obj([label |-> Str("detail"), foo |-> NULL])}

\* the requests of the round trip: with and without userData, handledAt absent, a date
\* string or a Date
RoundTripRequests ==
    { [r EXCEPT !.userData = u, !.handledAt = h] :
          r \in { q \in NewRequests : q.method = Str("GET") /\ q.handledAt = UNDEFINED },
          u \in UserDataValues,
          h \in HandledAtValues \cup {Date("2020-01-01T00:00:00.000Z")} }

WithId(r) ==
    [r EXCEPT !.id = Str(uniqueKeyToRequestId(r.uniqueKey.v))]

\* the request a JSON text of r gives back once its null properties are deleted
AsReturned(r) ==
    [f \in FieldNames |-> IF r[f] = NULL THEN UNDEFINED
                          ELSE IF r[f].t = "date" THEN Str(r[f].v)
                          ELSE r[f]]

\* what the round trip of r is compared with: r as it was given, or as a JSON text of
\* it gives it back
Expected(r, verbatim) ==
    IF verbatim THEN r ELSE AsReturned(r)

\* what getRequest gives for r after a fresh addRequest(r), and for r2 after
\* updateRequest(r2) of the same request, is what is expected of r and of r2
RoundTripGives(verbatim) ==
    /\ \A r \in RoundTripRequests, forefront \in BOOLEAN :
           LET id == uniqueKeyToRequestId(r.uniqueKey.v)
               added == addRequest(DB, r, forefront, now)
           IN  selectRequestJsonByModel(DB, QueueId, id) = UNDEFINED =>
                   /\ added.err = NoError
                   /\ getRequest(added.db, id, now).ret = Expected(WithId(r), verbatim)
                   /\ \A r2 \in { q \in RoundTripRequests : q.uniqueKey = r.uniqueKey } :
                          LET updated == updateRequest(added.db, WithId(r2), ~ forefront, now)
                          IN  /\ updated.err = NoError
                              /\ getRequest(updated.db, id, now).ret = Expected(WithId(r2), verbatim)
    /\ \A id \in RequestIds :
           selectRequestJsonByModel(DB, QueueId, id) = UNDEFINED =>
               getRequest(DB, id, now).ret = UNDEFINED

\* C33 (as the specification states it): after a fresh addRequest(r), getRequest(id)
\* returns an object equal to r with id added, every field of r preserved, userData
\* included; after updateRequest(r2) it returns r2 likewise; getRequest of an id that is
\* not in the queue returns undefined.
C33_RoundTripPreservesEveryField ==
    RoundTripGives(TRUE)

\* C33 (what the code does): getRequest returns r, or r2, with id added, except that a
\* property whose value is null, userData included, is missing, and that a handledAt
\* given as a Date comes back as its ISO string; a request without such values comes
\* back as it was given, whatever is inside its userData.  getRequest of an id that is
\* not in the queue returns undefined.
C33_RoundTripUpToNullsAndDates ==
    /\ RoundTripGives(FALSE)
    /\ \A r \in RoundTripRequests :
           r.userData # NULL /\ r.handledAt.t # "date" => AsReturned(WithId(r)) = WithId(r)

\* updateRequest has just rewritten a request, and getRequest gives what it was given
C33_Witness ==
    /\ lastOp.op = "updateRequest"
    /\ lastOp.err = NoError
    /\ lastOp.ret.wasAlreadyPresent
    /\ lastOp.args[1].handledAt # UNDEFINED
    /\ getRequest(DB, lastOp.ret.requestId, now).ret = lastOp.args[1]
    /\ \E id \in RequestIds : getRequest(DB, id, now).ret = UNDEFINED

\* C34: in every reachable state of the queue, whatever addRequest, batchAddRequests and
\* updateRequest calls were made, no two request rows have the same uniqueKey and no two
\* have the same id; the id of a row is the one derived from its uniqueKey.
C34_RequestRowsUnique ==
    /\ \A r1 \in requests : \A r2 \in requests :
           r1.queueId = r2.queueId /\ (r1.uniqueKey = r2.uniqueKey \/ r1.id = r2.id) => r1 = r2
    /\ \A r \in requests : r.id = uniqueKeyToRequestId(r.uniqueKey.v)
    /\ \A request \in NewRequests, forefront \in BOOLEAN :
           Cardinality(addRequest(DB, request, forefront, now).db.requests)
               = Cardinality(requests) + (IF RowOf(requests, IdOf(request)) = {} THEN 1 ELSE 0)

\* each uniqueKey has its row, one of them written again after the clock advanced
C34_Witness ==
    /\ now > StartTime
    /\ { r.uniqueKey.v : r \in requests } = UniqueKeys
    /\ Cardinality(requests) = Cardinality(UniqueKeys)
    /\ \E r \in requests : r.orderNo = NULL
    /\ \E r \in requests : r.orderNo = Num(now)

\* the ids of the rows that were put at the forefront: those of negative orderNo
Forefront(db) ==
    { r.id : r \in { x \in db.requests : x.orderNo # NULL /\ x.orderNo.v < 0 } }

\* the ids of the pending rows that were put at the tail
AtTail(db) ==
    { r.id : r \in { x \in db.requests : x.orderNo # NULL /\ x.orderNo.v > 0 } }

\* no id of `late` comes before an id of `early` in the sequence
ListedBefore(ids, early, late) ==
    \A i \in 1..Len(ids) : \A j \in 1..Len(ids) :
        ids[i] \in late /\ ids[j] \in early => i > j

\* C35: listAndLockHead gives each row it locks the orderNo sign(old orderNo) * (now +
\* lockSecs * 1000) and leaves the other rows alone, so that once the locks have expired
\* every request that was at the forefront before is listed, by listHead and by
\* listAndLockHead, before every request that was at the tail.
C35_LockKeepsSign ==
    \A limit \in Limits, lockSecs \in LockSecsValues :
        LET out == listAndLockHeadTx(DB, QueueId, limit, lockSecs, now)
            unlock == now + lockSecs * MsPerSec
            locked == fetchRequestHeadThatWillBeLocked(DB, QueueId, limit, now)
            lockedIds == { locked[i].id : i \in 1..Len(locked) }
            relisted == fetchRequestHeadThatWillBeLocked(out.db, QueueId, -1, unlock)
        IN  /\ \A r \in requests :
                   \E a \in out.db.requests :
                       /\ a.id = r.id
                       /\ a = IF r.id \in lockedIds
                              THEN [r EXCEPT !.orderNo =
                                       Num(IF r.orderNo.v < 0 THEN -unlock ELSE unlock)]
                              ELSE r
            /\ Cardinality(out.db.requests) = Cardinality(requests)
            /\ Forefront(out.db) = Forefront(DB)
            /\ AtTail(out.db) = AtTail(DB)
            /\ ListedBefore(ListedIds(out.db, 100, unlock), Forefront(DB), AtTail(DB))
            /\ ListedBefore([i \in 1..Len(relisted) |-> relisted[i].id], Forefront(DB), AtTail(DB))
            /\ lockedIds \subseteq { relisted[i].id : i \in 1..Len(relisted) }

\* listAndLockHead has just locked a forefront request and a tail request
C35_Witness ==
    /\ lastOp.op = "listAndLockHead"
    /\ Len(lastOp.ret) = 2
    /\ \E f \in requests : \E l \in requests :
           /\ f.orderNo = Num(-(now + MsPerSec))
           /\ l.orderNo = Num(now + MsPerSec)
           /\ ItemIds(lastOp.ret) = {f.id, l.id}

\* the request rows without their orderNo, and the queue rows without their timestamps
ButOrderNo(db) ==
    [rows |-> { [r EXCEPT !.orderNo = NULL] : r \in db.requests },
     queues |-> { [q EXCEPT !.modifiedAt = 0, !.accessedAt = 0] : q \in db.queues }]

\* the operation wrote nothing but the orderNo of rows of `targets`, and of no handled row
OnlyOrderNoOf(out, targets) ==
    /\ ButOrderNo(out.db) = ButOrderNo(DB)
    /\ Cardinality(out.db.requests) = Cardinality(requests)
    /\ \A r \in requests :
           r.id \notin targets \/ r.orderNo = NULL => r \in out.db.requests
    /\ \A a \in out.db.requests : a.orderNo = NULL => a \in requests

\* C36: listAndLockHead, prolongRequestLock and deleteRequestLock change only the
\* orderNo of the rows they target and the timestamps of the queue: the set of request
\* rows, the json, url, uniqueKey, method and retryCount of each, totalRequestCount and
\* handledRequestCount are as before, and no NULL orderNo becomes non-NULL.
C36_LockOperationsWriteOnlyOrderNo ==
    /\ \A limit \in Limits, lockSecs \in LockSecsValues :
           LET out == OnEmulator(DB, listAndLockHeadTx(DB, QueueId, limit, lockSecs, now))
           IN  OnlyOrderNoOf(out, ItemIds(out.ret))
    /\ \A id \in RequestIds, lockSecs \in LockSecsValues, forefront \in BOOLEAN :
           OnlyOrderNoOf(OnEmulator(DB, prolongRequestLockTx(DB, id, lockSecs, forefront, now)),
                         {id})
    /\ \A id \in RequestIds, forefront \in BOOLEAN :
           OnlyOrderNoOf(OnEmulator(DB, deleteRequestLockTx(DB, id, forefront, now)), {id})

\* prolongRequestLock has just rewritten the orderNo of one request, beside a handled one
C36_Witness ==
    /\ lastOp.op = "prolongRequestLock"
    /\ lastOp.err = NoError
    /\ HandledIds(requests) # {}
    /\ \E r \in PendingRows(requests) :
           r.id = lastOp.args[1] /\ Abs(r.orderNo.v) = lastOp.ret
    /\ TheQueue(queues).totalRequestCount = 2
    /\ TheQueue(queues).handledRequestCount = 1

\* C39: prolongRequestLock and deleteRequestLock take the sign of the orderNo they
\* store from their forefront option alone: without it the orderNo is positive, so that
\* a request that was at the forefront is among the tail requests afterwards, and with
\* forefront = true it is negative, whatever the sign was.
C39_SignFromForefrontOption ==
    /\ \A id \in RequestIds, lockSecs \in LockSecsValues, forefront \in BOOLEAN :
           LET out == prolongRequestLockTx(DB, id, lockSecs, forefront, now)
           IN  out.err = NoError =>
                   /\ StoredOrderNo(out.db, id)
                          = Num((IF forefront THEN -1 ELSE 1)
                                * (Abs(StoredOrderNo(DB, id).v) + lockSecs * MsPerSec))
                   /\ id \in IF forefront THEN Forefront(out.db) ELSE AtTail(out.db)
    /\ \A id \in RequestIds, forefront \in BOOLEAN :
           LET out == deleteRequestLockTx(DB, id, forefront, now)
           IN  out.err = NoError =>
                   /\ StoredOrderNo(out.db, id) = Num(IF forefront THEN -now ELSE now)
                   /\ id \in IF forefront THEN Forefront(out.db) ELSE AtTail(out.db)

\* prolongRequestLock without forefront has just moved a forefront request to the tail
C39_Witness ==
    /\ lastOp.op = "prolongRequestLock"
    /\ lastOp.err = NoError
    /\ ~ lastOp.args[3]
    /\ lastOp.args[4].v < 0
    /\ StoredOrderNo(DB, lastOp.args[1]).v > 0
    /\ lastOp.args[1] \in AtTail(DB)

\* C40: the emulator's deleteRequestById(id) removes at most the request row with that
\* id, and never the queue row or another request row.
C40_DeleteRequestByIdIsRowLevel ==
    \A id \in DeletedIds :
        LET out == deleteRequestById(DB, id, now)
        IN  /\ { q.id : q \in out.db.queues } = { q.id : q \in queues }
            /\ \A r \in requests : r.id # id => r \in out.db.requests

\* what deleteRequestById(id) does: it removes the queue whose id the leading digits of
\* `id` write, with every request of that queue, and nothing when there is no such
\* queue; the request row with that id stays unless its queue goes
C40_DeleteRequestByIdDeletesQueue ==
    \A id \in DeletedIds :
        LET out == deleteRequestById(DB, id, now)
            gone == { q \in queues : q.id = CastAsInteger(id) }
        IN  /\ out.db.queues = queues \ gone
            /\ out.db.requests = { r \in requests : \A q \in gone : r.queueId # q.id }
            /\ gone = {} => out.db = DB

\* deleteRequestById has just removed the queue and the requests it had
C40_Witness ==
    /\ lastOp.op = "deleteRequestById"
    /\ lastOp.err = NoError
    /\ lastOp.ret = 1
    /\ CastAsInteger(lastOp.args[1]) = QueueId
    /\ queues = {}
    /\ requests = {}

\* the crawl is over: nothing is pending and listAndLockHead gives nothing
CrawlDone ==
    /\ \A q \in queues : pendingRequestCount(q) = 0
    /\ PendingRows(requests) = {}
    /\ \A limit \in WorkerLimits, lockSecs \in LockSecsValues :
           listAndLockHeadTx(DB, QueueId, limit, lockSecs, now).ret = << >>

\* C37: once a worker keeps calling listAndLockHead with a limit of at least 1 and
\* marks every request it is given handled through updateRequest, with nothing added
\* any more and the clock advancing, eventually pendingRequestCount is 0 and
\* listAndLockHead gives an empty list from then on: no pending request is left out.
C37_CrawlLoopFinishes ==
    (worker.pc # "off") ~> [](CrawlDone)

\* the worker has marked the two requests of the queue handled, the last one after the
\* clock advanced, and is about to call listAndLockHead again
C37_Witness ==
    /\ worker.pc = "list"
    /\ now > StartTime
    /\ Cardinality(requests) = 2
    /\ CrawlDone
    /\ \A q \in queues : q.modifiedAt = now /\ q.handledRequestCount = 2

====
